---- MODULE Spec2Model ----
(***************************************************************************)
(* jimeng-gateway: task queue, worker loop and session pool.               *)
(*                                                                         *)
(* The durable store (SQLite) executes every statement atomically, so each *)
(* SQL statement of the source is one step; every `.await` between two     *)
(* statements is a point where other workers and handlers interleave.      *)
(* The session pool keeps an in-memory mirror that is written in a         *)
(* separate step after the store statement has returned.                   *)
(*                                                                         *)
(* Columns that no statement reads in a guard and no property mentions     *)
(* (updated_at, label, last_error, queue_position/total/eta...) are not    *)
(* carried in the rows; the request columns of a task (model, prompt,      *)
(* duration, ratio, request_body, request_content_type) are carried as     *)
(* the record `payload`. An Option is a sequence of length at most one.    *)
(***************************************************************************)
EXTENDS Integers, Sequences, FiniteSets, TLC

\* ---- bounds of the model ----
MaxTasks == 2
MaxSessions == 1
MaxClock == 2
\* The pipeline deadline (max_poll_duration_secs, at least 60) counted in poll
\* intervals (poll_interval_secs, at least 1).
MaxPolls == 1

\* ---- program constants ----
Concurrency == 2
SessionCap == 2
STATUS_PENDING == 20
STATUS_FAILED == 30

NULL == 0
Workers == 1..(SessionCap + 1)
SessionIds == 1..MaxSessions

\* CreateTaskRequest with the body and content type passed to enqueue.
PlainRequest ==
    [prompt |-> "a", model |-> <<>>, duration |-> <<>>, ratio |-> <<>>,
     request_body |-> <<>>, request_content_type |-> <<>>]
FullRequest ==
    [prompt |-> "b", model |-> <<"m">>, duration |-> <<8>>, ratio |-> <<"16:9">>,
     request_body |-> <<"body">>, request_content_type |-> <<"multipart">>]
Requests == {PlainRequest, FullRequest}

DefaultDuration == 4

\* enqueue: the request columns of the row it inserts (unwrap_or defaults)
Columns(req) ==
    [model |-> IF req.model = <<>> THEN "jimeng-video-seedance-2.0" ELSE req.model[1],
     prompt |-> req.prompt,
     duration |-> IF req.duration = <<>> THEN DefaultDuration ELSE req.duration[1],
     ratio |-> IF req.ratio = <<>> THEN "9:16" ELSE req.ratio[1],
     request_body |-> req.request_body,
     request_content_type |-> req.request_content_type]

\* Variant of RetryRequest: the stored body is not passed on.
RetryRequest_DropsBody(src) ==
    [prompt |-> src.prompt, model |-> <<src.model>>, duration |-> <<src.duration>>,
     ratio |-> <<src.ratio>>, request_body |-> <<>>,
     request_content_type |-> src.request_content_type]

\* retry_task: the request built from the columns read of the source row
RetryRequest(src) ==
    [prompt |-> src.prompt, model |-> <<src.model>>, duration |-> <<src.duration>>,
     ratio |-> <<src.ratio>>, request_body |-> src.request_body,
     request_content_type |-> src.request_content_type]

Payloads == {Columns(PlainRequest)}

TaskStatus == {"queued", "submitting", "polling", "downloading",
               "succeeded", "failed", "cancelled"}
Terminal == {"succeeded", "failed", "cancelled"}

VARIABLES
    tasks,        \* store table `tasks`: sequence of rows, id = insertion index
    sessions,     \* store table `sessions`: id -> row, for the ids not deleted
    added,        \* number of session ids handed out so far
    cache,        \* SessionPool.sessions, the in-memory mirror: id -> SessionInfo
    now,          \* wall clock, in whole seconds
    pc,           \* per worker: position in worker_loop / execute_task
    task_id,      \* per worker: the claimed task (local `task_id`)
    session,      \* per worker: the row returned by pick_session (local `session`)
    result,       \* per worker: Ok(url) / Err(msg) of execute_task, release arguments
    admin,        \* the session-admin handler in flight (between store write and mirror write)
    picks,        \* history: successful pick_session calls per session id
    releases,     \* history: release_session calls per session id
    nrel,         \* history: per worker, release calls since its last successful pick
    resp,         \* the exchange the step just taken completed, if any: the response to a
                  \* client's request, or the upstream's answer to a poll
    acked,        \* history: the tasks for which a cancel request was answered ok
    budget,       \* the number of submissions (enqueue, retry) the clients still make
    auth_enabled, \* Config.auth_enabled
    admin_token,  \* Config.admin_token: the operator's token, or none
    keys_made,    \* number of key ids handed out so far (ids are fresh UUIDs)
    key_admin,    \* the key-admin handler in flight (between store write and eviction)
    api_keys,     \* store table `api_keys`: key id -> row
    usage,        \* store table `usage_daily`, today's rows: key id -> counters
    buckets,      \* RateLimiter.buckets: key id -> TokenBucket, for the ids that have one
    instant,      \* the monotonic clock read by Instant::now(), in whole seconds
    inflight,     \* per connection: position of a POST /v1/videos/generations handler
    bearer,       \* the Authorization token of the request served by the step just taken
    grants,       \* history: per key, the limit in force and the instants of its allowed checks
    burst,        \* history: per key, the run of checks made without time passing
    submitted,    \* history: per key, the tasks enqueued for it today
    browser,      \* BrowserService.browser: whether the Option holds a launched browser
    browser_sessions, \* BrowserService.sessions: session token -> BrowserSession
    fetch,        \* per caller: position of a BrowserService::fetch call, its token and page
    pages_made,   \* number of pages opened so far (each new_page returns a fresh page)
    is_seedance,  \* execute_task: whether the task's model is of the signed family
    files,        \* process_materials: the file parts extracted from the stored body
    file_idx,     \* process_materials: the number of files the loop has dealt with
    materials,    \* process_materials: the Vec<UploadedMaterial> built so far
    failed,       \* history: the positions in `files` of the uploads that returned Err
    stage,        \* execute_task: where the pipeline of this task stands
    submit_args,  \* the materials argument the submit function was called with
    submit_payload, \* the parsed JSON body of the submit response
    submit_result, \* Result<SubmitResult> of the submit function
    notify,       \* TaskQueue.notify: the notifications handed to waiting workers and not
                  \* yet acted on, plus the stored permit
    deadline      \* per worker: the poll intervals left until the local `deadline` of
                  \* execute_task is reached (0: reached, or the worker is not polling)

gateVars == <<auth_enabled, admin_token, keys_made, key_admin, api_keys, usage, buckets, instant, inflight, bearer,
              grants, burst, submitted>>

oracleVars == <<browser, browser_sessions, fetch, pages_made>>

adapterVars == <<is_seedance, files, file_idx, materials, failed, stage, submit_args,
                 submit_payload, submit_result>>

sideVarsButDeadline == <<oracleVars, adapterVars, notify>>

sideVarsButNotify == <<oracleVars, adapterVars, deadline>>

sideVars == <<oracleVars, adapterVars, deadline, notify>>

gateVarsButInstant == <<auth_enabled, admin_token, keys_made, key_admin, api_keys, usage, buckets, inflight,
                        bearer, grants, burst, submitted>>

vars == <<tasks, sessions, added, cache, now, pc, task_id, session, result,
          admin, picks, releases, nrel, resp, acked, budget, gateVars, sideVars>>

taskVars == <<tasks, acked, budget>>
poolVars == <<sessions, added, cache, admin, picks, releases>>
workerVars == <<pc, task_id, session, result, nrel>>

\* ---------------------------------------------------------------------------
\* The components beside the queue, the pool and the gate, as constructed
\* ---------------------------------------------------------------------------

\* The callers that can be inside BrowserService::fetch at once: the workers.
Fetchers == 1..Concurrency

NoFetch == [pc |-> "idle", token |-> NULL, page |-> NULL]

\* BrowserService::new: no browser, no sessions
OracleIdle ==
    /\ browser = FALSE
    /\ browser_sessions = [t \in {} |-> NULL]
    /\ fetch = [c \in Fetchers |-> NoFetch]
    /\ pages_made = 0

NoPayload == [ret |-> <<>>, data_aigc |-> <<>>, data |-> <<>>, aigc |-> <<>>]
NoSubmit == [ok |-> FALSE, history_record_id |-> "", msg |-> ""]

\* A pipeline with its inputs: the model family, the attached files and the
\* body the upstream answers the submit call with.
AdapterStarted(seedance, attached, body) ==
    /\ is_seedance = seedance
    /\ files = attached
    /\ file_idx = 0
    /\ materials = <<>>
    /\ failed = {}
    /\ stage = "materials"
    /\ submit_args = <<>>
    /\ submit_payload = body
    /\ submit_result = NoSubmit

\* No pipeline is followed.
AdapterIdle ==
    /\ AdapterStarted(FALSE, <<>>, NoPayload)

\* No worker is in the poll loop.
PollIdle == deadline = [w \in Workers |-> 0]

\* Notify::new(): no waiter, no permit.
NotifyNew == notify = 0

SideIdle == OracleIdle /\ AdapterIdle /\ PollIdle /\ NotifyNew

\* ---------------------------------------------------------------------------
\* Rows
\* ---------------------------------------------------------------------------

\* INSERT INTO tasks (id, status, ..., created_at, updated_at) VALUES (?, 'queued', ...)
NewTask(payload, t) ==
    [status |-> "queued", payload |-> payload, created_at |-> t,
     started_at |-> NULL, finished_at |-> NULL, session_pool_id |-> NULL,
     history_record_id |-> NULL, video_url |-> NULL, error_kind |-> NULL]

\* INSERT INTO sessions (id, label, session_id): the column defaults
NewSession ==
    [enabled |-> TRUE, healthy |-> TRUE, active_tasks |-> 0, total_tasks |-> 0,
     success_count |-> 0, fail_count |-> 0, last_used_at |-> NULL]

Idle == [op |-> "idle", id |-> NULL, enabled |-> FALSE]
NoResult == [branch |-> "none", msg |-> "", url |-> NULL]
NoPick == [id |-> NULL, active_tasks |-> 0, last_used_at |-> NULL]
NoResp == [op |-> "none", id |-> NULL, ok |-> FALSE]

\* The state after start-up: the store holds the sessions `present` (added
\* earlier by the operator, mirrored by load_sessions) and no task, and
\* start_workers has spawned `concurrency` workers.
Started(concurrency, present, submissions) ==
    /\ tasks = <<>>
    /\ sessions = [s \in present |-> NewSession]
    /\ added = Cardinality(present)
    /\ cache = [s \in present |-> NewSession]
    /\ now = 1
    /\ pc = [w \in Workers |-> IF w <= concurrency THEN "wait" ELSE "off"]
    /\ task_id = [w \in Workers |-> NULL]
    /\ session = [w \in Workers |-> NoPick]
    /\ result = [w \in Workers |-> NoResult]
    /\ admin = Idle
    /\ picks = [s \in SessionIds |-> 0]
    /\ releases = [s \in SessionIds |-> 0]
    /\ nrel = [w \in Workers |-> 0]
    /\ resp = NoResp
    /\ acked = {}
    /\ budget = submissions

\* The rows of `sessions` an earlier run may have left in the store: any
\* flags, any reservation count up to the cap, used before or never.
StoredSessions ==
    [enabled : BOOLEAN, healthy : BOOLEAN, active_tasks : 0..SessionCap,
     total_tasks : {0}, success_count : {0}, fail_count : {0},
     last_used_at : {NULL, 1}]

\* The state after a start on the store `table` left by an earlier run:
\* load_sessions mirrors the rows as they are, there is no task.
Restarted(concurrency, table, submissions) ==
    /\ tasks = <<>>
    /\ sessions = table
    /\ added = Cardinality(DOMAIN table)
    /\ cache = table
    /\ now = 1
    /\ pc = [w \in Workers |-> IF w <= concurrency THEN "wait" ELSE "off"]
    /\ task_id = [w \in Workers |-> NULL]
    /\ session = [w \in Workers |-> NoPick]
    /\ result = [w \in Workers |-> NoResult]
    /\ admin = Idle
    /\ picks = [s \in DOMAIN table |-> 0]
    /\ releases = [s \in DOMAIN table |-> 0]
    /\ nrel = [w \in Workers |-> 0]
    /\ resp = NoResp
    /\ acked = {}
    /\ budget = submissions

\* Restriction of a function to the arguments other than k (DELETE ... WHERE id = k).
Without(f, k) == [x \in DOMAIN f \ {k} |-> f[x]]
\* Extension of a function by one argument (INSERT / Vec::push).
With(f, k, v) == [x \in DOMAIN f \cup {k} |-> IF x = k THEN v ELSE f[x]]

\* ---------------------------------------------------------------------------
\* Error classification
\* ---------------------------------------------------------------------------
\* Error messages, one for each class of classify_error that changes what the
\* worker does or that the pipeline itself produces: "failed" stands for every
\* message without an auth or timeout keyword ("Task cancelled", "Unsupported
\* resolution/ratio: ...", "Upstream returned status ... without video_url",
\* and the messages classified network and platform_rule, which the worker
\* treats like unknown).
ErrMsgs == {"unauthorized", "timed out", "failed"}

\* The message of the poll loop's deadline check, "Polling timed out after {}s".
PollTimedOut == "Polling timed out"

classify_error(msg) ==
    IF msg = "unauthorized" THEN "auth"
    ELSE IF msg \in {"timed out", PollTimedOut} THEN "timeout"
    ELSE "unknown"

\* A step of a worker or of the clock answers no client request.
NoResponse == resp' = NoResp

\* The end of an iteration of worker_loop: the locals go out of scope.
Done(w) ==
    /\ pc' = [pc EXCEPT ![w] = "wait"]
    /\ task_id' = [task_id EXCEPT ![w] = NULL]
    /\ session' = [session EXCEPT ![w] = NoPick]
    /\ result' = [result EXCEPT ![w] = NoResult]
    /\ nrel' = [nrel EXCEPT ![w] = 0]

\* ---------------------------------------------------------------------------
\* worker_loop: claim, reserve a session, record the assignment
\* ---------------------------------------------------------------------------

\* Variant of QueuedIds: the claim also takes rows that are already 'submitting'.
QueuedIds_AnyUnfinished ==
    {i \in DOMAIN tasks : tasks[i].status \in {"queued", "submitting"}}

\* SELECT id FROM tasks WHERE status = 'queued'
QueuedIds == {i \in DOMAIN tasks : tasks[i].status = "queued"}

\* ... ORDER BY created_at LIMIT 1: a row whose created_at is smallest. SQL leaves
\* the order of rows with equal keys unspecified, so any of them may be the one.
OldestQueued ==
    {i \in QueuedIds : \A j \in QueuedIds : tasks[i].created_at <= tasks[j].created_at}

\* The workers blocked in the select! at the top of worker_loop.
Waiting == {w \in Workers : pc[w] = "wait"}

\* Notify::notify_one: a waiting worker that has no notification yet gets one;
\* with none, a permit is stored unless one is stored already.
notify_one == IF notify <= Cardinality(Waiting) THEN notify + 1 ELSE notify

\* Variant of WakeUps: the select! has no sleep branch.
WakeUps_NotifyOnly == {"notified"}

\* tokio::select! at the top of worker_loop: the branch that completes first,
\* queue.notify.notified() or the sleep of 5 seconds.
WakeUps == {"notified", "ticker"}

\* The wake-up, then UPDATE tasks SET status = 'submitting', started_at =
\* datetime('now') WHERE id = (...) RETURNING id. The notifications are
\* counted, not attributed: a worker that wakes while one is outstanding is
\* the one holding it and uses it up, and the sleep wakes a worker when none
\* is. With no queued row the worker goes back to its wait (nothing changes
\* but the notification).
Claim(w) ==
    /\ pc[w] = "wait"
    /\ \E by \in WakeUps :
         /\ by = IF notify > 0 THEN "notified" ELSE "ticker"
         /\ notify' = IF by = "notified" THEN notify - 1 ELSE notify
         /\ IF QueuedIds = {}
            THEN /\ by = "notified"
                 /\ UNCHANGED <<tasks, task_id, pc>>
            ELSE /\ \E i \in OldestQueued :
                      /\ tasks' = [tasks EXCEPT ![i].status = "submitting",
                                                ![i].started_at = now]
                      /\ task_id' = [task_id EXCEPT ![w] = i]
                 /\ pc' = [pc EXCEPT ![w] = "pick"]
    /\ UNCHANGED <<now, session, result, nrel, acked, budget>>
    /\ UNCHANGED poolVars
    /\ NoResponse
    /\ UNCHANGED <<gateVars, sideVarsButNotify>>

\* Variant of Eligible: the selection forgets the health flag.
Eligible_IgnoresHealth ==
    {s \in DOMAIN sessions :
        sessions[s].enabled /\ sessions[s].active_tasks < SessionCap}

\* Variant of Eligible: the selection forgets the cap.
Eligible_NoCap ==
    {s \in DOMAIN sessions : sessions[s].enabled /\ sessions[s].healthy}

\* SELECT id FROM sessions WHERE enabled=1 AND healthy=1 AND active_tasks < 2
Eligible ==
    {s \in DOMAIN sessions :
        sessions[s].enabled /\ sessions[s].healthy /\ sessions[s].active_tasks < SessionCap}

\* Variant of LeastRecentlyUsed: the statement has no ORDER BY.
LeastRecentlyUsed_AnyEligible == Eligible

\* ... ORDER BY last_used_at LIMIT 1 (NULL sorts first; equal keys in any order)
LeastRecentlyUsed ==
    {s \in Eligible : \A t \in Eligible : sessions[s].last_used_at <= sessions[t].last_used_at}

\* pick_session, the store statement: UPDATE sessions SET active_tasks = active_tasks + 1,
\* last_used_at = datetime('now') WHERE id = (...) RETURNING ...
PickStore(w) ==
    /\ pc[w] = "pick"
    /\ \/ /\ Eligible = {}
          /\ pc' = [pc EXCEPT ![w] = "requeue"]
          /\ UNCHANGED <<sessions, session, picks, nrel>>
       \/ \E s \in LeastRecentlyUsed :
            /\ sessions' = [sessions EXCEPT ![s].active_tasks = @ + 1,
                                            ![s].last_used_at = now]
            /\ session' = [session EXCEPT ![w] =
                              [id |-> s, active_tasks |-> sessions[s].active_tasks + 1,
                               last_used_at |-> now]]
            /\ picks' = [picks EXCEPT ![s] = @ + 1]
            /\ nrel' = [nrel EXCEPT ![w] = 0]
            /\ pc' = [pc EXCEPT ![w] = "pick_sync"]
    /\ UNCHANGED <<now, task_id, result, added, cache, admin, releases>>
    /\ UNCHANGED taskVars
    /\ NoResponse
    /\ UNCHANGED <<gateVars, sideVars>>

\* pick_session, "Sync in-memory cache": the mirror takes the returned row's
\* values. Of the returned row the worker reads only the id from here on.
PickSync(w) ==
    /\ pc[w] = "pick_sync"
    /\ LET s == session[w].id IN
         cache' = IF s \in DOMAIN cache
                  THEN [cache EXCEPT ![s].active_tasks = session[w].active_tasks,
                                     ![s].last_used_at = session[w].last_used_at]
                  ELSE cache
    /\ session' = [session EXCEPT ![w] = [NoPick EXCEPT !.id = session[w].id]]
    /\ pc' = [pc EXCEPT ![w] = "assign"]
    /\ UNCHANGED <<now, task_id, result, nrel, sessions, added, admin,
                   picks, releases>>
    /\ UNCHANGED taskVars
    /\ NoResponse
    /\ UNCHANGED <<gateVars, sideVars>>

\* Variant of Requeue: the worker gives up the task without writing it back.
Requeue_NoWriteBack(w) ==
    /\ pc[w] = "requeue"
    /\ Done(w)
    /\ UNCHANGED now
    /\ UNCHANGED taskVars
    /\ UNCHANGED poolVars
    /\ NoResponse
    /\ UNCHANGED <<gateVars, sideVars>>

\* No session: UPDATE tasks SET status = 'queued' WHERE id = ?, then sleep and continue
Requeue(w) ==
    /\ pc[w] = "requeue"
    /\ tasks' = [tasks EXCEPT ![task_id[w]].status = "queued"]
    /\ Done(w)
    /\ UNCHANGED <<now, acked, budget>>
    /\ UNCHANGED poolVars
    /\ NoResponse
    /\ UNCHANGED <<gateVars, sideVars>>

\* UPDATE tasks SET session_pool_id = ? WHERE id = ?
Assign(w) ==
    /\ pc[w] = "assign"
    /\ tasks' = [tasks EXCEPT ![task_id[w]].session_pool_id = session[w].id]
    /\ pc' = [pc EXCEPT ![w] = "exec"]
    /\ UNCHANGED <<now, task_id, session, result, nrel, acked, budget>>
    /\ UNCHANGED poolVars
    /\ NoResponse
    /\ UNCHANGED <<gateVars, sideVars>>

\* ---------------------------------------------------------------------------
\* execute_task: the pipeline of one claimed task
\* ---------------------------------------------------------------------------

\* update_status: UPDATE tasks SET status = ? WHERE id = ?
update_status(id, status) == [tasks EXCEPT ![id].status = status]

\* is_task_cancelled: SELECT status FROM tasks WHERE id = ?
is_task_cancelled(id) == tasks[id].status = "cancelled"

\* The pipeline returns Err(msg): the worker goes to its error branch.
Bail(w, msg) ==
    /\ result' = [result EXCEPT ![w] = [branch |-> "err", msg |-> msg, url |-> NULL]]
    /\ pc' = [pc EXCEPT ![w] = "err_check"]

\* Messages a call to the upstream can fail with: any class.
UpstreamErrs == ErrMsgs

\* Read the task's attributes, resolve the resolution (an unsupported ratio is an
\* error), then update_status(queue, task_id, "submitting").
ExecStart(w) ==
    /\ pc[w] = "exec"
    /\ \/ /\ Bail(w, "failed")
          /\ UNCHANGED tasks
       \/ /\ tasks' = update_status(task_id[w], "submitting")
          /\ pc' = [pc EXCEPT ![w] = "submit"]
          /\ UNCHANGED result
    /\ UNCHANGED <<now, task_id, session, nrel, acked, budget>>
    /\ UNCHANGED poolVars
    /\ NoResponse
    /\ UNCHANGED <<gateVars, sideVars>>

\* process_materials and the submit call (upstream only), then
\* UPDATE tasks SET status = 'polling', history_record_id = ? WHERE id = ?
Submit(w) ==
    /\ pc[w] = "submit"
    /\ \/ \E m \in UpstreamErrs :
            /\ Bail(w, m)
            /\ UNCHANGED tasks
       \/ /\ tasks' = [tasks EXCEPT ![task_id[w]].status = "polling",
                                    ![task_id[w]].history_record_id = 1]
          /\ pc' = [pc EXCEPT ![w] = "poll_check"]
          /\ UNCHANGED result
    /\ deadline' = [deadline EXCEPT ![w] = IF pc'[w] = "poll_check" THEN MaxPolls ELSE 0]
    /\ UNCHANGED <<now, task_id, session, nrel, acked, budget>>
    /\ UNCHANGED poolVars
    /\ NoResponse
    /\ UNCHANGED <<gateVars, sideVarsButDeadline>>

\* Variant of PollCheck: the loop has no deadline check.
PollCheck_NoDeadline(w) ==
    /\ pc[w] = "poll_check"
    /\ IF is_task_cancelled(task_id[w])
       THEN Bail(w, "failed")
       ELSE /\ pc' = [pc EXCEPT ![w] = "poll_http"]
            /\ UNCHANGED result
    /\ deadline' = [deadline EXCEPT ![w] = IF pc'[w] = "poll_http" THEN @ ELSE 0]
    /\ UNCHANGED <<now, task_id, session, nrel>>
    /\ UNCHANGED taskVars
    /\ UNCHANGED poolVars
    /\ NoResponse
    /\ UNCHANGED <<gateVars, sideVarsButDeadline>>

\* Top of the poll loop: the cancellation check, then the deadline check
\* (Instant::now() >= deadline; the message is "Polling timed out after Ns").
PollCheck(w) ==
    /\ pc[w] = "poll_check"
    /\ IF is_task_cancelled(task_id[w])
       THEN Bail(w, "failed")
       ELSE IF deadline[w] = 0
       THEN Bail(w, PollTimedOut)
       ELSE /\ pc' = [pc EXCEPT ![w] = "poll_http"]
            /\ UNCHANGED result
    /\ deadline' = [deadline EXCEPT ![w] = IF pc'[w] = "poll_http" THEN @ ELSE 0]
    /\ UNCHANGED <<now, task_id, session, nrel>>
    /\ UNCHANGED taskVars
    /\ UNCHANGED poolVars
    /\ NoResponse
    /\ UNCHANGED <<gateVars, sideVarsButDeadline>>

\* What poll_status can return: the upstream status and whether a non-empty
\* video URL was found.
PollResults == [status : {STATUS_PENDING, STATUS_FAILED, STATUS_PENDING + STATUS_FAILED},
                has_url : BOOLEAN]

\* Variant of poll_decision: the video URL is looked at before the failure status.
poll_decision_UrlFirst(r) ==
    IF r.has_url THEN "downloading"
    ELSE IF r.status = STATUS_FAILED THEN "failed"
    ELSE IF r.status # STATUS_PENDING THEN "unexpected"
    ELSE "pending"

\* The ifs of the poll loop after the progress write, in their order:
\* status == STATUS_FAILED bails; a non-empty video_url goes on to
\* downloading; status != STATUS_PENDING bails; otherwise sleep and loop.
poll_decision(r) ==
    IF r.status = STATUS_FAILED THEN "failed"
    ELSE IF r.has_url THEN "downloading"
    ELSE IF r.status # STATUS_PENDING THEN "unexpected"
    ELSE "pending"

\* poll_status(...)?, the queue-progress write (UPDATE tasks SET status = 'polling',
\* queue_position = ?, ... WHERE id = ?), then the decision on the poll result
\* and, for a pending task, the sleep of one poll interval: at least one
\* interval passes between two deadline checks (the call itself may take up to
\* the HTTP client's timeout).
PollHttp(w) ==
    /\ pc[w] = "poll_http"
    /\ \/ \E m \in UpstreamErrs :
            /\ Bail(w, m)
            /\ UNCHANGED tasks
            /\ NoResponse
       \/ \E r \in PollResults :
            /\ tasks' = [tasks EXCEPT ![task_id[w]].status = "polling"]
            /\ resp' = [op |-> "poll", status |-> r.status, has_url |-> r.has_url]
            /\ CASE poll_decision(r) = "failed" -> \E m \in UpstreamErrs : Bail(w, m)
                 [] poll_decision(r) = "downloading" ->
                        /\ pc' = [pc EXCEPT ![w] = "downloading"]
                        /\ UNCHANGED result
                 [] poll_decision(r) = "unexpected" -> Bail(w, "failed")
                 [] OTHER ->
                        /\ pc' = [pc EXCEPT ![w] = "poll_check"]
                        /\ UNCHANGED result
    /\ IF pc'[w] = "poll_check"
       THEN \E left \in 0..(deadline[w] - 1) : deadline' = [deadline EXCEPT ![w] = left]
       ELSE deadline' = [deadline EXCEPT ![w] = 0]
    /\ UNCHANGED <<now, task_id, session, nrel, acked, budget>>
    /\ UNCHANGED poolVars
    /\ UNCHANGED <<gateVars, sideVarsButDeadline>>

\* update_status(queue, task_id, "downloading"), the high-quality URL lookup
\* (upstream only), return Ok(url).
Downloading(w) ==
    /\ pc[w] = "downloading"
    /\ tasks' = update_status(task_id[w], "downloading")
    /\ result' = [result EXCEPT ![w] = [branch |-> "ok", msg |-> "", url |-> 1]]
    /\ pc' = [pc EXCEPT ![w] = "succ_write"]
    /\ UNCHANGED <<now, task_id, session, nrel, acked, budget>>
    /\ UNCHANGED poolVars
    /\ NoResponse
    /\ UNCHANGED <<gateVars, sideVars>>

\* ---------------------------------------------------------------------------
\* worker_loop: the result of the pipeline
\* ---------------------------------------------------------------------------

\* Ok(video_url): UPDATE tasks SET status = 'succeeded', video_url = ?,
\* finished_at = datetime('now') WHERE id = ? AND status != 'cancelled'
SucceedWrite(w) ==
    /\ pc[w] = "succ_write"
    /\ LET id == task_id[w] IN
         tasks' = IF tasks[id].status # "cancelled"
                  THEN [tasks EXCEPT ![id].status = "succeeded",
                                     ![id].video_url = result[w].url,
                                     ![id].finished_at = now]
                  ELSE tasks
    /\ pc' = [pc EXCEPT ![w] = "release"]
    /\ UNCHANGED <<now, task_id, session, result, nrel, acked, budget>>
    /\ UNCHANGED poolVars
    /\ NoResponse
    /\ UNCHANGED <<gateVars, sideVars>>

\* Variant of ErrCheck: the cancelled branch continues without releasing.
ErrCheck_NoRelease(w) ==
    /\ pc[w] = "err_check"
    /\ IF is_task_cancelled(task_id[w])
       THEN Done(w)
       ELSE /\ pc' = [pc EXCEPT ![w] = "fail_write"]
            /\ UNCHANGED <<task_id, session, result, nrel>>
    /\ UNCHANGED now
    /\ UNCHANGED taskVars
    /\ UNCHANGED poolVars
    /\ NoResponse
    /\ UNCHANGED <<gateVars, sideVars>>

\* Err(e): if is_task_cancelled(...) the worker releases with "cancelled by user"
\* and skips the fail-write.
ErrCheck(w) ==
    /\ pc[w] = "err_check"
    /\ IF is_task_cancelled(task_id[w])
       THEN /\ result' = [result EXCEPT ![w].branch = "cancelled"]
            /\ pc' = [pc EXCEPT ![w] = "release"]
       ELSE /\ pc' = [pc EXCEPT ![w] = "fail_write"]
            /\ UNCHANGED result
    /\ UNCHANGED <<now, task_id, session, nrel>>
    /\ UNCHANGED taskVars
    /\ UNCHANGED poolVars
    /\ NoResponse
    /\ UNCHANGED <<gateVars, sideVars>>

\* UPDATE tasks SET status = 'failed', error_message = ?, error_kind = ?,
\* finished_at = datetime('now') WHERE id = ?
FailWrite(w) ==
    /\ pc[w] = "fail_write"
    /\ tasks' = [tasks EXCEPT ![task_id[w]].status = "failed",
                              ![task_id[w]].error_kind = classify_error(result[w].msg),
                              ![task_id[w]].finished_at = now]
    /\ pc' = [pc EXCEPT ![w] = "release"]
    /\ UNCHANGED <<now, task_id, session, result, nrel, acked, budget>>
    /\ UNCHANGED poolVars
    /\ NoResponse
    /\ UNCHANGED <<gateVars, sideVars>>

Max(a, b) == IF a >= b THEN a ELSE b

\* i32::saturating_sub with a subtrahend >= 0: the difference, clamped at i32::MIN
I32Min == -2147483647 - 1
saturating_sub(a, b) == IF a < I32Min + b THEN I32Min ELSE a - b

\* Variant of ReleaseRow: the counters are recorded, the slot is not given back.
ReleaseRow_NoDecrement(row, success) ==
    [row EXCEPT !.total_tasks = @ + 1,
                !.success_count = IF success THEN @ + 1 ELSE @,
                !.fail_count = IF success THEN @ ELSE @ + 1]

\* Variant of ReleaseRow: the release clears the counter instead of decrementing it.
ReleaseRow_Reset(row, success) ==
    [row EXCEPT !.active_tasks = 0,
                !.total_tasks = @ + 1,
                !.success_count = IF success THEN @ + 1 ELSE @,
                !.fail_count = IF success THEN @ ELSE @ + 1]

\* release_session, the store statement: UPDATE sessions SET
\* active_tasks = MAX(0, active_tasks - 1), total_tasks = total_tasks + 1,
\* {success_count|fail_count} = ... + 1 WHERE id = ?
ReleaseRow(row, success) ==
    [row EXCEPT !.active_tasks = Max(0, @ - 1),
                !.total_tasks = @ + 1,
                !.success_count = IF success THEN @ + 1 ELSE @,
                !.fail_count = IF success THEN @ ELSE @ + 1]

\* release_session, the mirror: active_tasks.saturating_sub(1), total_tasks += 1, ...
ReleaseInfo(info, success) ==
    [info EXCEPT !.active_tasks = saturating_sub(@, 1),
                 !.total_tasks = @ + 1,
                 !.success_count = IF success THEN @ + 1 ELSE @,
                 !.fail_count = IF success THEN @ ELSE @ + 1]

ReleaseStore(w) ==
    /\ pc[w] = "release"
    /\ LET s == session[w].id IN
         /\ sessions' = IF s \in DOMAIN sessions
                        THEN [sessions EXCEPT ![s] = ReleaseRow(@, result[w].branch = "ok")]
                        ELSE sessions
         /\ releases' = [releases EXCEPT ![s] = @ + 1]
    /\ nrel' = [nrel EXCEPT ![w] = @ + 1]
    /\ pc' = [pc EXCEPT ![w] = "release_sync"]
    /\ UNCHANGED <<now, task_id, session, result, added, cache, admin, picks>>
    /\ UNCHANGED taskVars
    /\ NoResponse
    /\ UNCHANGED <<gateVars, sideVars>>

\* After the release the iteration ends, except that a failure classified
\* "auth" goes on to mark_unhealthy.
ReleaseSync(w) ==
    /\ pc[w] = "release_sync"
    /\ LET s == session[w].id IN
         cache' = IF s \in DOMAIN cache
                  THEN [cache EXCEPT ![s] = ReleaseInfo(@, result[w].branch = "ok")]
                  ELSE cache
    /\ IF result[w].branch = "err" /\ classify_error(result[w].msg) = "auth"
       THEN /\ pc' = [pc EXCEPT ![w] = "demote"]
            /\ UNCHANGED <<task_id, session, result, nrel>>
       ELSE Done(w)
    /\ UNCHANGED <<now, sessions, added, admin, picks, releases>>
    /\ UNCHANGED taskVars
    /\ NoResponse
    /\ UNCHANGED <<gateVars, sideVars>>

\* Variant of MarkUnhealthyStore: the statement leaves the row as it is.
MarkUnhealthyStore_NoWrite(w) ==
    /\ pc[w] = "demote"
    /\ pc' = [pc EXCEPT ![w] = "demote_sync"]
    /\ UNCHANGED <<now, task_id, session, result, nrel>>
    /\ UNCHANGED poolVars
    /\ UNCHANGED taskVars
    /\ NoResponse
    /\ UNCHANGED <<gateVars, sideVars>>

\* mark_unhealthy, the store statement: UPDATE sessions SET healthy = 0 WHERE id = ?
MarkUnhealthyStore(w) ==
    /\ pc[w] = "demote"
    /\ LET s == session[w].id IN
         sessions' = IF s \in DOMAIN sessions
                     THEN [sessions EXCEPT ![s].healthy = FALSE]
                     ELSE sessions
    /\ pc' = [pc EXCEPT ![w] = "demote_sync"]
    /\ UNCHANGED <<now, task_id, session, result, nrel, added, cache, admin,
                   picks, releases>>
    /\ UNCHANGED taskVars
    /\ NoResponse
    /\ UNCHANGED <<gateVars, sideVars>>

\* mark_unhealthy, the mirror: s.healthy = false
MarkUnhealthySync(w) ==
    /\ pc[w] = "demote_sync"
    /\ LET s == session[w].id IN
         cache' = IF s \in DOMAIN cache
                  THEN [cache EXCEPT ![s].healthy = FALSE]
                  ELSE cache
    /\ Done(w)
    /\ UNCHANGED <<now, sessions, added, admin, picks, releases>>
    /\ UNCHANGED taskVars
    /\ NoResponse
    /\ UNCHANGED <<gateVars, sideVars>>

\* ---------------------------------------------------------------------------
\* TaskQueue: the client operations
\* ---------------------------------------------------------------------------

\* enqueue: INSERT a row in 'queued' with created_at = now (whole seconds),
\* then self.notify.notify_one()
Enqueue(payload) ==
    /\ budget > 0
    /\ tasks' = Append(tasks, NewTask(payload, now))
    /\ notify' = notify_one
    /\ budget' = budget - 1
    /\ NoResponse
    /\ UNCHANGED <<gateVars, sideVarsButNotify>>
    /\ UNCHANGED <<now, acked>>
    /\ UNCHANGED workerVars
    /\ UNCHANGED poolVars

\* Variant of Cancellable: the statement only excludes rows already cancelled.
Cancellable_NotCancelled == TaskStatus \ {"cancelled"}

\* ... WHERE id = ? AND status IN ('queued', 'submitting', 'polling')
Cancellable == {"queued", "submitting", "polling"}

\* cancel_task: UPDATE tasks SET status = 'cancelled', finished_at = datetime('now')
\* WHERE id = ? AND status IN (...); Ok(rows_affected > 0)
cancel_task(id) ==
    LET hit == id \in DOMAIN tasks /\ tasks[id].status \in Cancellable IN
    /\ tasks' = IF hit
                THEN [tasks EXCEPT ![id].status = "cancelled", ![id].finished_at = now]
                ELSE tasks
    /\ resp' = [op |-> "cancel", id |-> id, ok |-> hit]
    /\ acked' = IF hit THEN acked \cup {id} ELSE acked

\* POST /tasks/{id}/cancel, for an id that exists or not
Cancel(id) ==
    /\ cancel_task(id)
    /\ UNCHANGED <<gateVars, sideVars>>
    /\ UNCHANGED <<now, budget>>
    /\ UNCHANGED workerVars
    /\ UNCHANGED poolVars

\* retry_task: read the source row; None if there is none, else enqueue the
\* request built from it
Retry(id) ==
    /\ budget > 0
    /\ IF id \in DOMAIN tasks
       THEN /\ tasks' = Append(tasks, NewTask(Columns(RetryRequest(tasks[id].payload)), now))
            /\ notify' = notify_one
            /\ budget' = budget - 1
       ELSE UNCHANGED <<tasks, budget, notify>>
    /\ resp' = [op |-> "retry", id |-> id, ok |-> id \in DOMAIN tasks]
    /\ UNCHANGED <<gateVars, sideVarsButNotify>>
    /\ UNCHANGED <<now, acked>>
    /\ UNCHANGED workerVars
    /\ UNCHANGED poolVars

\* ---------------------------------------------------------------------------
\* SessionPool: the operator's operations (store statement, then mirror)
\* ---------------------------------------------------------------------------

\* add_session: INSERT INTO sessions (id, label, session_id) with a fresh id
AddStore ==
    /\ admin = Idle
    /\ added < MaxSessions
    /\ added' = added + 1
    /\ sessions' = With(sessions, added + 1, NewSession)
    /\ admin' = [op |-> "add", id |-> added + 1, enabled |-> TRUE]
    /\ UNCHANGED <<cache, picks, releases, now>>
    /\ UNCHANGED workerVars
    /\ UNCHANGED taskVars
    /\ NoResponse
    /\ UNCHANGED <<gateVars, sideVars>>

\* remove_session: DELETE FROM sessions WHERE id = ?
RemoveStore(id) ==
    /\ admin = Idle
    /\ id \in DOMAIN sessions
    /\ sessions' = Without(sessions, id)
    /\ admin' = [op |-> "remove", id |-> id, enabled |-> FALSE]
    /\ UNCHANGED <<added, cache, picks, releases, now>>
    /\ UNCHANGED workerVars
    /\ UNCHANGED taskVars
    /\ NoResponse
    /\ UNCHANGED <<gateVars, sideVars>>

\* Variant of ToggleStore: the statement sets enabled only.
ToggleStore_KeepsHealth(id, enabled) ==
    /\ admin = Idle
    /\ id \in DOMAIN sessions
    /\ sessions' = [sessions EXCEPT ![id].enabled = enabled]
    /\ admin' = [op |-> "toggle", id |-> id, enabled |-> enabled]
    /\ UNCHANGED <<added, cache, picks, releases, now>>
    /\ UNCHANGED workerVars
    /\ UNCHANGED taskVars
    /\ NoResponse
    /\ UNCHANGED <<gateVars, sideVars>>

\* toggle_session: UPDATE sessions SET enabled = ?,
\* healthy = CASE WHEN ? THEN 1 ELSE healthy END WHERE id = ?
ToggleStore(id, enabled) ==
    /\ admin = Idle
    /\ id \in DOMAIN sessions
    /\ sessions' = [sessions EXCEPT ![id].enabled = enabled,
                                    ![id].healthy = IF enabled THEN TRUE ELSE @]
    /\ admin' = [op |-> "toggle", id |-> id, enabled |-> enabled]
    /\ UNCHANGED <<added, cache, picks, releases, now>>
    /\ UNCHANGED workerVars
    /\ UNCHANGED taskVars
    /\ NoResponse
    /\ UNCHANGED <<gateVars, sideVars>>

\* The mirror half of add_session (push), remove_session (retain) and
\* toggle_session (find by id, set enabled, set healthy when enabling).
AdminSync ==
    /\ admin # Idle
    /\ cache' =
         CASE admin.op = "add" -> With(cache, admin.id, NewSession)
           [] admin.op = "remove" -> Without(cache, admin.id)
           [] OTHER ->
                IF admin.id \in DOMAIN cache
                THEN [cache EXCEPT ![admin.id].enabled = admin.enabled,
                                   ![admin.id].healthy = IF admin.enabled THEN TRUE ELSE @]
                ELSE cache
    /\ admin' = Idle
    /\ UNCHANGED <<sessions, added, picks, releases, now>>
    /\ UNCHANGED workerVars
    /\ UNCHANGED taskVars
    /\ NoResponse
    /\ UNCHANGED <<gateVars, sideVars>>

\* One second passes.
Tick ==
    /\ now < MaxClock
    /\ now' = now + 1
    /\ UNCHANGED workerVars
    /\ UNCHANGED taskVars
    /\ UNCHANGED poolVars
    /\ NoResponse
    /\ UNCHANGED <<gateVars, sideVars>>

\* ---------------------------------------------------------------------------
\* RateLimiter: one token bucket per credential
\* ---------------------------------------------------------------------------
\* Time is counted in whole seconds and tokens in sixtieths of a token, so that
\* the refill of rate_limit / 60 tokens per second is exact: a bucket's
\* `tokens` is 60 times the f64 of the source, `refill_rate` is in sixtieths
\* per second, and `tokens >= 1.0` reads `tokens >= Minute`.

MaxKeys == 1
MaxRun == 4
MaxGrants == 5
Horizon == 141
Minute == 60

KeyIds == 1..MaxKeys
RateLimits == 0..2
Delays == {20, Minute}

Min(a, b) == IF a <= b THEN a ELSE b
CeilDiv(a, b) == (a + b - 1) \div b

\* Variant of NewBucket: a bucket is created empty.
NewBucket_Empty(rate_limit, t) ==
    [tokens |-> 0, max_tokens |-> rate_limit,
     refill_rate |-> rate_limit, last_refill |-> t]

\* or_insert_with(|| TokenBucket { tokens: rate_limit, max_tokens: rate_limit, ... })
NewBucket(rate_limit, t) ==
    [tokens |-> rate_limit * Minute, max_tokens |-> rate_limit,
     refill_rate |-> rate_limit, last_refill |-> t]

\* Variant of Unlimited: the answer for limit 0 is a denial.
Unlimited_Denied == [allowed |-> FALSE, limit |-> 0, remaining |-> 0, reset_secs |-> 0]

\* rate_limit == 0: RateLimitResult { allowed: true, limit: 0, remaining: 0, reset_secs: 0 }
Unlimited == [allowed |-> TRUE, limit |-> 0, remaining |-> 0, reset_secs |-> 0]

\* Variant of Refill: the refill is not capped at max_tokens.
Refill_NoCap(bucket, t) ==
    bucket.tokens + (t - bucket.last_refill) * bucket.refill_rate

\* (bucket.tokens + elapsed * bucket.refill_rate).min(bucket.max_tokens)
Refill(bucket, t) ==
    Min(bucket.tokens + (t - bucket.last_refill) * bucket.refill_rate,
        bucket.max_tokens * Minute)

\* Variant of Resized: the bucket keeps the size it was created with.
Resized_KeepsMax(entry, rate_limit) == entry

\* "Update max if rate_limit changed": (max_tokens - rate_limit).abs() > 0.01
\* sets max_tokens and refill_rate anew (both are whole numbers here).
Resized(entry, rate_limit) ==
    IF entry.max_tokens # rate_limit
    THEN [entry EXCEPT !.max_tokens = rate_limit, !.refill_rate = rate_limit]
    ELSE entry

\* RateLimiter::check(key_id, rate_limit) at instant t on the bucket map bs:
\* the map after the call and the RateLimitResult.
check(bs, key_id, rate_limit, t) ==
    IF rate_limit = 0
    THEN [buckets |-> bs, result |-> Unlimited]
    ELSE LET entry == IF key_id \in DOMAIN bs THEN bs[key_id] ELSE NewBucket(rate_limit, t)
             sized == Resized(entry, rate_limit)
             tokens == Refill(sized, t)
         IN  IF tokens >= Minute
             THEN LET remaining == (tokens - Minute) \div Minute IN
                  [buckets |-> With(bs, key_id, [sized EXCEPT !.tokens = tokens - Minute,
                                                              !.last_refill = t]),
                   result |-> [allowed |-> TRUE, limit |-> rate_limit,
                               remaining |-> remaining,
                               reset_secs |-> IF remaining = 0
                                              THEN CeilDiv(Minute, sized.refill_rate)
                                              ELSE 0]]
             ELSE [buckets |-> With(bs, key_id, [sized EXCEPT !.tokens = tokens,
                                                              !.last_refill = t]),
                   result |-> [allowed |-> FALSE, limit |-> rate_limit, remaining |-> 0,
                               reset_secs |-> CeilDiv(Minute - tokens, sized.refill_rate)]]

NoGrants == [limit |-> 0, at |-> <<>>, held |-> <<>>]
NoBurst == [full |-> FALSE, n |-> 0, limit |-> 0]

\* The instants of a history that lie in the 60 seconds up to t.
Recent(seq, t) == SelectSeq(seq, LAMBDA x : x >= t - Minute)

\* History of the checks of one key. `at` holds the allowed checks of the last
\* 60 seconds made under the limit in force, `held` those of them made since
\* the key's bucket was last created. A check with another positive limit
\* starts both anew; a check with limit 0 is not recorded.
GrantsAfter(key_id, rate_limit, allowed) ==
    IF rate_limit = 0 THEN grants[key_id]
    ELSE LET same == grants[key_id].limit = rate_limit
             at == IF same THEN Recent(grants[key_id].at, instant) ELSE <<>>
             held == IF same /\ key_id \in DOMAIN buckets
                     THEN Recent(grants[key_id].held, instant) ELSE <<>>
         IN  [limit |-> rate_limit,
              at |-> IF allowed THEN Append(at, instant) ELSE at,
              held |-> IF allowed THEN Append(held, instant) ELSE held]

\* History of back-to-back checks of one key: a run is a sequence of checks
\* under one positive limit on one bucket with no time passing between them,
\* `n` counts its checks, and it is `full` when its first check created the
\* bucket or came 60 seconds or more after the previous check under that limit.
BurstAfter(key_id, rate_limit) ==
    IF rate_limit = 0 THEN burst[key_id]
    ELSE IF key_id \notin DOMAIN buckets
    THEN [full |-> TRUE, n |-> 1, limit |-> rate_limit]
    ELSE IF /\ buckets[key_id].max_tokens = rate_limit
            /\ instant - buckets[key_id].last_refill >= Minute
    THEN [full |-> TRUE, n |-> 1, limit |-> rate_limit]
    ELSE IF /\ burst[key_id].limit = rate_limit
            /\ buckets[key_id].last_refill = instant
    THEN [burst[key_id] EXCEPT !.n = @ + 1]
    ELSE [full |-> FALSE, n |-> 1, limit |-> rate_limit]

\* The effect of state.rate_limiter.check(key_id, rate_limit) on the limiter.
Checked(key_id, rate_limit) ==
    LET r == check(buckets, key_id, rate_limit, instant) IN
    /\ buckets' = r.buckets
    /\ grants' = [grants EXCEPT ![key_id] = GrantsAfter(key_id, rate_limit, r.result.allowed)]
    /\ burst' = [burst EXCEPT ![key_id] = BurstAfter(key_id, rate_limit)]

MaxInflight == 2
Connections == 1..MaxInflight

NoUsage == [request_count |-> 0, task_count |-> 0]
NoToken == [kind |-> "none", id |-> NULL]
\* No row of api_keys (lookup_by_hash not made, or without result).
NoRow == [key_hash |-> <<>>, key_prefix |-> <<>>, enabled |-> FALSE, expires_at |-> <<>>, scopes |-> {},
          rate_limit |-> 0, daily_quota |-> 0, last_used_at |-> <<>>]
NoCaller == [kind |-> "none", key_id |-> NULL, scopes |-> {}, daily_quota |-> 0]
Closed == [pc |-> "closed", token |-> NoToken, key |-> NULL, record |-> NoRow,
           caller |-> NoCaller]
NoKeys == [k \in {} |-> NULL]
KeyIdle == [op |-> "idle", id |-> NULL, token |-> NoToken]

\* The gate after start-up: the configuration, the credentials `keys` created
\* earlier by the operator, no usage recorded today (an absent usage_daily row
\* reads as 0), RateLimiter::new(), no request in flight.
GateStarted(auth, token, keys) ==
    /\ auth_enabled = auth
    /\ admin_token = token
    /\ keys_made = Cardinality(DOMAIN keys)
    /\ key_admin = KeyIdle
    /\ api_keys = keys
    /\ usage = [k \in DOMAIN keys |-> NoUsage]
    /\ buckets = [k \in {} |-> NULL]
    /\ instant = 0
    /\ inflight = [c \in Connections |-> Closed]
    /\ bearer = NoToken
    /\ grants = [k \in KeyIds |-> NoGrants]
    /\ burst = [k \in KeyIds |-> NoBurst]
    /\ submitted = [k \in KeyIds |-> 0]

\* A call of check with a key id and a limit (the limit is the credential's
\* rate_limit at the time of the call, which the operator may have changed).
Check(key_id, rate_limit) ==
    /\ BurstAfter(key_id, rate_limit).n <= MaxRun
    /\ Len(GrantsAfter(key_id, rate_limit, TRUE).at) <= MaxGrants
    /\ Checked(key_id, rate_limit)
    /\ resp' = [op |-> "check", id |-> key_id, limit |-> rate_limit,
                result |-> check(buckets, key_id, rate_limit, instant).result]
    /\ UNCHANGED <<auth_enabled, admin_token, keys_made, key_admin, api_keys, usage, instant, inflight, bearer, submitted>>
    /\ UNCHANGED sideVars
    /\ UNCHANGED now
    /\ UNCHANGED taskVars
    /\ UNCHANGED poolVars
    /\ UNCHANGED workerVars

\* RateLimiter::remove(key_id), called when a key is deleted or regenerated
Remove(key_id) ==
    /\ key_id \in DOMAIN buckets
    /\ buckets' = Without(buckets, key_id)
    /\ burst' = [burst EXCEPT ![key_id] = NoBurst]
    /\ NoResponse
    /\ UNCHANGED <<auth_enabled, admin_token, keys_made, key_admin, api_keys, usage, instant, inflight, bearer, grants, submitted>>
    /\ UNCHANGED sideVars
    /\ UNCHANGED now
    /\ UNCHANGED taskVars
    /\ UNCHANGED poolVars
    /\ UNCHANGED workerVars

\* Time passes on the monotonic clock.
Elapse(d) ==
    /\ instant + d <= Horizon
    /\ instant' = instant + d
    /\ NoResponse
    /\ UNCHANGED <<auth_enabled, admin_token, keys_made, key_admin, api_keys, usage, buckets, inflight, bearer,
                   grants, burst, submitted>>
    /\ UNCHANGED sideVars
    /\ UNCHANGED now
    /\ UNCHANGED taskVars
    /\ UNCHANGED poolVars
    /\ UNCHANGED workerVars

\* ---------------------------------------------------------------------------
\* The admission gate (api_key_auth) and the compat submission behind it
\* ---------------------------------------------------------------------------
\* A handler is a future: each SQL statement it awaits is one step, and the
\* code between two statements runs with the later one. Steps of different
\* connections interleave.

\* Bearer tokens: the operator's ADMIN_TOKEN, the token issued with key k, and
\* a token nobody issued. NoToken is a request without an Authorization header.
AdminToken == [kind |-> "admin", id |-> NULL]
BogusToken == [kind |-> "bogus", id |-> NULL]
KeyToken(k) == [kind |-> "key", id |-> k]
Headers == {NoToken, AdminToken, BogusToken} \cup {KeyToken(k) : k \in KeyIds}

\* hash_key: the SHA-256 hex digest of the token, without collisions on the
\* tokens of the model.
hash_key(token) == <<"sha256", token.kind, token.id>>

\* key_prefix: raw.chars().take(8), "gw_" and the leading hex digits of the
\* random part; here the random part is a number and its last binary digit
\* is cut off, so that two tokens can share a prefix.
key_prefix(token) == <<"gw_", token.id \div 2>>

\* The scopes a key is created with by default, the admin scope, and a set
\* that allows neither submission nor cancellation.
DefaultScopes == {"video:create", "task:read", "task:cancel"}
ScopeSets == {DefaultScopes, {"admin"}, {"task:read"}}

\* expires_at values: none, or an RFC3339 instant 30 seconds after start-up.
\* An Option is a sequence of length at most one.
Expiries == {<<>>, <<30>>}
Quotas == 0..1

\* The rows of api_keys the operator may have created for key k.
KeyRows(k) ==
    [key_hash : {hash_key(KeyToken(k))}, key_prefix : {key_prefix(KeyToken(k))},
     enabled : BOOLEAN, expires_at : Expiries,
     scopes : ScopeSets, rate_limit : 0..1, daily_quota : Quotas,
     last_used_at : {<<>>}]

\* The tables api_keys the gate may start with: each key created or not.
KeyTables ==
    UNION {{t \in [ks -> UNION {KeyRows(k) : k \in ks}] : \A k \in ks : t[k] \in KeyRows(k)}
           : ks \in SUBSET KeyIds}

\* lookup_by_hash: SELECT ... FROM api_keys WHERE key_hash = ? (key_hash is unique)
lookup_by_hash(key_hash) == {k \in DOMAIN api_keys : api_keys[k].key_hash = key_hash}

\* if let Some(expires_at) ... if Utc::now() > exp
Expired(record, t) == record.expires_at # <<>> /\ t > record.expires_at[1]

Anonymous == [kind |-> "anonymous", key_id |-> NULL, scopes |-> {}, daily_quota |-> 0]
EnvAdmin == [kind |-> "admin", key_id |-> NULL, scopes |-> {}, daily_quota |-> 0]
KeyAdmin(k) == [kind |-> "admin", key_id |-> k, scopes |-> {}, daily_quota |-> 0]
ApiKey(k, record) ==
    [kind |-> "api_key", key_id |-> k, scopes |-> record.scopes,
     daily_quota |-> record.daily_quota]

\* Caller::has_scope
has_scope(caller, scope) ==
    caller.kind \in {"admin", "anonymous"} \/ scope \in caller.scopes

\* A connection: the position of its request, the bearer token it carries,
\* the id and row returned by lookup_by_hash, the Caller extension.
Conn(p, token, k, record, caller) ==
    [pc |-> p, token |-> token, key |-> k, record |-> record, caller |-> caller]

\* The response of the gate or of the handler; status 0 stands for the
\* request being passed to the handler (next.run).
Respond(c, op, status, caller) ==
    /\ resp' = [op |-> op, c |-> c, caller |-> caller, status |-> status]
    /\ bearer' = inflight[c].token

\* api_key::touch and usage::record_request for key k. usage_daily.api_key_id
\* REFERENCES api_keys(id): for a key deleted meanwhile the insert of a usage
\* row goes through or fails (the error is dropped) according to whether the
\* connection enforces foreign keys.
Touched(k) ==
    /\ api_keys' = IF k \in DOMAIN api_keys
                   THEN [api_keys EXCEPT ![k].last_used_at = <<instant>>]
                   ELSE api_keys
    /\ IF k \in DOMAIN usage
       THEN usage' = [usage EXCEPT ![k].request_count = @ + 1]
       ELSE IF k \in DOMAIN api_keys
       THEN usage' = With(usage, k, [NoUsage EXCEPT !.request_count = 1])
       ELSE usage' \in {usage, With(usage, k, [NoUsage EXCEPT !.request_count = 1])}

\* api_key_auth up to the lookup: a client sends POST /v1/videos/generations on
\* connection c with the header `token`.
GateLookup(c, token) ==
    LET found == lookup_by_hash(hash_key(token))
        next == IF ~auth_enabled
                THEN Conn("handler", token, NULL, NoRow, Anonymous)
                ELSE IF token = NoToken
                THEN Conn("401", token, NULL, NoRow, NoCaller)
                ELSE IF admin_token # NoToken /\ token = admin_token
                THEN Conn("handler", token, NULL, NoRow, EnvAdmin)
                ELSE IF found = {}
                THEN Conn("401", token, NULL, NoRow, NoCaller)
                ELSE LET k == CHOOSE x \in found : TRUE IN
                     Conn("found", token, k, api_keys[k], NoCaller)
    IN
    /\ inflight[c].pc = "closed"
    /\ budget > 0
    /\ budget' = budget - 1
    /\ inflight' = [inflight EXCEPT ![c] = IF next.pc = "401" THEN Closed ELSE next]
    /\ bearer' = token
    /\ resp' = IF next.pc = "found" THEN NoResp
               ELSE [op |-> "gate", c |-> c, caller |-> next.caller,
                     status |-> IF next.pc = "401" THEN 401 ELSE 0]
    /\ UNCHANGED <<auth_enabled, admin_token, keys_made, key_admin, api_keys, usage, buckets, instant,
                   grants, burst, submitted>>
    /\ UNCHANGED sideVars
    /\ UNCHANGED <<now, tasks, acked>>
    /\ UNCHANGED poolVars
    /\ UNCHANGED workerVars

\* Variant of admit: a key with scope admin goes through the rate limiter like
\* any other key.
admit_AdminKeyLimited(k, record, t, allowed) ==
    IF ~record.enabled \/ Expired(record, t)
    THEN [status |-> 403, limited |-> FALSE, caller |-> NoCaller]
    ELSE IF ~allowed
    THEN [status |-> 429, limited |-> TRUE, caller |-> NoCaller]
    ELSE [status |-> 0, limited |-> TRUE,
          caller |-> IF "admin" \in record.scopes THEN KeyAdmin(k) ELSE ApiKey(k, record)]

\* api_key_auth on the row found, at time t: the status of the rejection, or 0
\* and the Caller; `limited` tells whether rate_limiter.check is reached, and
\* `allowed` is what it answers.
admit(k, record, t, allowed) ==
    IF ~record.enabled
    THEN [status |-> 403, limited |-> FALSE, caller |-> NoCaller]
    ELSE IF Expired(record, t)
    THEN [status |-> 403, limited |-> FALSE, caller |-> NoCaller]
    ELSE IF "admin" \in record.scopes
    THEN [status |-> 0, limited |-> FALSE, caller |-> KeyAdmin(k)]
    ELSE IF ~allowed
    THEN [status |-> 429, limited |-> TRUE, caller |-> NoCaller]
    ELSE [status |-> 0, limited |-> TRUE, caller |-> ApiKey(k, record)]

\* api_key_auth after the lookup: the checks on the row, the rate limiter,
\* then touch and record_request, and the request is passed on.
GateAdmit(c) ==
    LET k == inflight[c].key
        record == inflight[c].record
        r == check(buckets, k, record.rate_limit, instant)
        v == admit(k, record, instant, r.result.allowed)
    IN
    /\ inflight[c].pc = "found"
    /\ IF v.limited
       THEN Checked(k, record.rate_limit)
       ELSE UNCHANGED <<buckets, grants, burst>>
    /\ IF v.status = 0
       THEN Touched(k)
       ELSE UNCHANGED <<api_keys, usage>>
    /\ inflight' = [inflight EXCEPT ![c] =
         IF v.status = 0
         THEN Conn("handler", inflight[c].token, k, record, v.caller)
         ELSE Closed]
    /\ Respond(c, "gate", v.status, v.caller)
    /\ UNCHANGED <<auth_enabled, admin_token, keys_made, key_admin, instant, submitted>>
    /\ UNCHANGED sideVars
    /\ UNCHANGED now
    /\ UNCHANGED taskVars
    /\ UNCHANGED poolVars
    /\ UNCHANGED workerVars

\* today_task_count: SELECT task_count FROM usage_daily ...; no row reads 0
today_task_count(k) == IF k \in DOMAIN usage THEN usage[k].task_count ELSE 0

\* compat_video_generations up to the quota check: require_scope, then for an
\* ApiKey caller with daily_quota > 0 the read of today's task count.
QuotaCheck(c) ==
    LET caller == inflight[c].caller
        status == IF ~has_scope(caller, "video:create") THEN 403
                  ELSE IF /\ caller.kind = "api_key"
                          /\ caller.daily_quota > 0
                          /\ today_task_count(caller.key_id) >= caller.daily_quota
                  THEN 429
                  ELSE 0
    IN
    /\ inflight[c].pc = "handler"
    /\ IF status = 0
       THEN /\ inflight' = [inflight EXCEPT ![c].pc = "enqueue"]
            /\ NoResponse
            /\ UNCHANGED bearer
       ELSE /\ inflight' = [inflight EXCEPT ![c] = Closed]
            /\ Respond(c, "submit", status, caller)
    /\ UNCHANGED <<auth_enabled, admin_token, keys_made, key_admin, api_keys, usage, buckets, instant,
                   grants, burst, submitted>>
    /\ UNCHANGED sideVars
    /\ UNCHANGED now
    /\ UNCHANGED taskVars
    /\ UNCHANGED poolVars
    /\ UNCHANGED workerVars

\* compat_video_generations: state.queue.enqueue(req, body, content_type)
EnqueueCompat(c, payload) ==
    LET k == inflight[c].caller.key_id IN
    /\ inflight[c].pc = "enqueue"
    /\ tasks' = Append(tasks, NewTask(payload, now))
    /\ notify' = notify_one
    /\ submitted' = IF k = NULL THEN submitted ELSE [submitted EXCEPT ![k] = @ + 1]
    /\ inflight' = [inflight EXCEPT ![c].pc = "record"]
    /\ NoResponse
    /\ UNCHANGED <<auth_enabled, admin_token, keys_made, key_admin, api_keys, usage, buckets, instant,
                   bearer, grants, burst>>
    /\ UNCHANGED sideVarsButNotify
    /\ UNCHANGED <<now, acked, budget>>
    /\ UNCHANGED poolVars
    /\ UNCHANGED workerVars

\* compat_video_generations: record_task for a caller with a key id, then 202
RecordTask(c) ==
    LET k == inflight[c].caller.key_id IN
    /\ inflight[c].pc = "record"
    /\ usage' = IF k = NULL THEN usage
                ELSE IF k \in DOMAIN usage
                THEN [usage EXCEPT ![k].task_count = @ + 1]
                ELSE With(usage, k, [NoUsage EXCEPT !.task_count = 1])
    /\ inflight' = [inflight EXCEPT ![c] = Closed]
    /\ Respond(c, "submit", 202, inflight[c].caller)
    /\ UNCHANGED <<auth_enabled, admin_token, keys_made, key_admin, api_keys, buckets, instant,
                   grants, burst, submitted>>
    /\ UNCHANGED sideVars
    /\ UNCHANGED now
    /\ UNCHANGED taskVars
    /\ UNCHANGED poolVars
    /\ UNCHANGED workerVars

\* POST /api/v1/tasks/{id}/cancel carrying the header `token`: the route is
\* part of public_api_router, which main merges without a middleware layer,
\* and the handler takes the path only.
CancelRequest(token, id) ==
    /\ cancel_task(id)
    /\ bearer' = token
    /\ UNCHANGED <<auth_enabled, admin_token, keys_made, key_admin, api_keys, usage, buckets, instant,
                   inflight, grants, burst, submitted>>
    /\ UNCHANGED sideVars
    /\ UNCHANGED <<now, budget>>
    /\ UNCHANGED workerVars
    /\ UNCHANGED poolVars


\* ---------------------------------------------------------------------------
\* Key management (routes/keys.rs): create, regenerate, delete
\* ---------------------------------------------------------------------------
\* generate_key returns "gw_" and 16 random bytes in hex; the random part is
\* modelled as a number that no earlier call returned: key k is created with
\* the token of number k, and each regeneration adds MaxKeys to the number.
MaxRegens == 2
TokenIds == 1..(MaxKeys * (MaxRegens + 1))
IssuedTokens == {KeyToken(n) : n \in TokenIds}

\* The number of the token whose hash the row holds.
TokenOf(row) == row.key_hash[3]

\* create_key: api_key::create inserts the row under a fresh id, enabled, with
\* the hash and the prefix of a new token, and the token is returned.
CreateKey(row) ==
    LET k == keys_made + 1 IN
    /\ key_admin = KeyIdle
    /\ k \in KeyIds
    /\ row \in KeyRows(k)
    /\ row.enabled
    /\ api_keys' = With(api_keys, k, row)
    /\ keys_made' = k
    /\ resp' = [op |-> "create", id |-> k, ok |-> TRUE, key |-> KeyToken(k)]
    /\ UNCHANGED <<auth_enabled, admin_token, key_admin, usage, buckets, instant,
                   inflight, bearer, grants, burst, submitted>>
    /\ UNCHANGED sideVars
    /\ UNCHANGED now
    /\ UNCHANGED taskVars
    /\ UNCHANGED poolVars
    /\ UNCHANGED workerVars

\* Variant of Regenerated: the row keeps its hash and only the prefix is new.
Regenerated_KeepsHash(row, token) ==
    [row EXCEPT !.key_prefix = key_prefix(token), !.last_used_at = <<>>]

\* api_key::regenerate: UPDATE api_keys SET key_hash = ?, key_prefix = ?,
\* last_used_at = NULL WHERE id = ?
Regenerated(row, token) ==
    [row EXCEPT !.key_hash = hash_key(token), !.key_prefix = key_prefix(token),
                !.last_used_at = <<>>]

\* regenerate_key up to the store statement; an unknown id is answered 404.
RegenerateStore(id) ==
    /\ key_admin = KeyIdle
    /\ IF id \in DOMAIN api_keys
       THEN LET token == KeyToken(TokenOf(api_keys[id]) + MaxKeys) IN
            /\ token \in IssuedTokens
            /\ api_keys' = [api_keys EXCEPT ![id] = Regenerated(@, token)]
            /\ key_admin' = [op |-> "regenerate", id |-> id, token |-> token]
            /\ NoResponse
       ELSE /\ resp' = [op |-> "regenerate", id |-> id, ok |-> FALSE, key |-> NoToken]
            /\ UNCHANGED <<api_keys, key_admin>>
    /\ UNCHANGED <<auth_enabled, admin_token, keys_made, usage, buckets, instant,
                   inflight, bearer, grants, burst, submitted>>
    /\ UNCHANGED sideVars
    /\ UNCHANGED now
    /\ UNCHANGED taskVars
    /\ UNCHANGED poolVars
    /\ UNCHANGED workerVars

\* delete_key up to the store statement (DELETE FROM api_keys WHERE id = ?);
\* an unknown id is answered 404. When usage_daily holds a row of the key, the
\* statement deletes the key or fails (answered 500) according to whether the
\* connection enforces foreign keys.
DeleteStore(id) ==
    /\ key_admin = KeyIdle
    /\ \/ /\ id \in DOMAIN api_keys
          /\ api_keys' = Without(api_keys, id)
          /\ key_admin' = [op |-> "delete", id |-> id, token |-> NoToken]
          /\ NoResponse
       \/ /\ id \notin DOMAIN api_keys \/ id \in DOMAIN usage
          /\ resp' = [op |-> "delete", id |-> id, ok |-> FALSE, key |-> NoToken]
          /\ UNCHANGED <<api_keys, key_admin>>
    /\ UNCHANGED <<auth_enabled, admin_token, keys_made, usage, buckets, instant,
                   inflight, bearer, grants, burst, submitted>>
    /\ UNCHANGED sideVars
    /\ UNCHANGED now
    /\ UNCHANGED taskVars
    /\ UNCHANGED poolVars
    /\ UNCHANGED workerVars

\* The rest of regenerate_key and delete_key: state.rate_limiter.remove(&id),
\* then the response (with the new token for regenerate).
KeyEvict ==
    /\ key_admin # KeyIdle
    /\ buckets' = Without(buckets, key_admin.id)
    /\ burst' = [burst EXCEPT ![key_admin.id] = NoBurst]
    /\ resp' = [op |-> key_admin.op, id |-> key_admin.id, ok |-> TRUE,
                key |-> key_admin.token]
    /\ key_admin' = KeyIdle
    /\ UNCHANGED <<auth_enabled, admin_token, keys_made, api_keys, usage, instant,
                   inflight, bearer, grants, submitted>>
    /\ UNCHANGED sideVars
    /\ UNCHANGED now
    /\ UNCHANGED taskVars
    /\ UNCHANGED poolVars
    /\ UNCHANGED workerVars

\* One step of worker w.
Worker(w) ==
    \/ Claim(w)
    \/ PickStore(w)
    \/ PickSync(w)
    \/ Requeue(w)
    \/ Assign(w)
    \/ ExecStart(w)
    \/ Submit(w)
    \/ PollCheck(w)
    \/ PollHttp(w)
    \/ Downloading(w)
    \/ SucceedWrite(w)
    \/ ErrCheck(w)
    \/ FailWrite(w)
    \/ ReleaseStore(w)
    \/ ReleaseSync(w)
    \/ MarkUnhealthyStore(w)
    \/ MarkUnhealthySync(w)

\* The task queue: the default number of workers on a pool that holds every
\* session, and clients that enqueue, cancel and retry.
InitQueue == Started(Concurrency, SessionIds, MaxTasks) /\ GateStarted(FALSE, NoToken, NoKeys) /\ SideIdle

NextQueue ==
    \/ \E w \in Workers : Worker(w)
    \/ \E p \in Payloads : Enqueue(p)
    \/ \E id \in 1..(MaxTasks + 1) : Cancel(id)
    \/ \E id \in 1..(MaxTasks + 1) : Retry(id)

SpecQueue == InitQueue /\ [][NextQueue]_vars

\* The order of claims: the same workers and pool, submissions spread over time.
NextFifo ==
    \/ \E w \in Workers : Worker(w)
    \/ \E p \in Payloads : Enqueue(p)
    \/ Tick

SpecFifo == InitQueue /\ [][NextFifo]_vars

\* The session pool: the default number of workers on a pool that the operator
\* fills, toggles and empties while tasks run.
InitPool == Started(Concurrency, {}, MaxTasks) /\ GateStarted(FALSE, NoToken, NoKeys) /\ SideIdle

NextPool ==
    \/ \E w \in Workers : Worker(w)
    \/ \E p \in Payloads : Enqueue(p)
    \/ AddStore
    \/ \E id \in SessionIds : RemoveStore(id)
    \/ \E id \in SessionIds, e \in BOOLEAN : ToggleStore(id, e)
    \/ AdminSync

SpecPool == InitPool /\ [][NextPool]_vars

\* The per-session cap: one worker and one task more than a session admits
\* (CONCURRENCY is configuration), all on the pool's sessions.
InitCap == Started(SessionCap + 1, SessionIds, SessionCap + 1) /\ GateStarted(FALSE, NoToken, NoKeys) /\ SideIdle

NextCap ==
    \/ \E w \in Workers : Worker(w)
    \/ \E p \in Payloads : Enqueue(p)

SpecCap == InitCap /\ [][NextCap]_vars

\* The retry for lack of a session: the pool starts empty and the operator
\* adds sessions while tasks wait. The workers are tokio tasks that loop for
\* ever (their waits and sleeps all time out) and a handler runs to its end,
\* so a worker step or a mirror write that stays possible is eventually taken.
NextRetry ==
    \/ \E w \in Workers : Worker(w)
    \/ \E p \in Payloads : Enqueue(p)
    \/ AddStore
    \/ AdminSync

SpecRetry ==
    /\ InitPool
    /\ [][NextRetry]_vars
    /\ \A w \in Workers : WF_vars(Worker(w))
    /\ WF_vars(AdminSync)

\* The rate limiter on its own: checks with any key and limit, at any of the
\* instants the delays reach, and evictions.
InitLimiter == Started(0, {}, 0) /\ GateStarted(TRUE, NoToken, NoKeys) /\ SideIdle

NextLimiter ==
    \/ \E k \in KeyIds, r \in RateLimits : Check(k, r)
    \/ \E k \in KeyIds : Remove(k)
    \/ \E d \in Delays : Elapse(d)

SpecLimiter == InitLimiter /\ [][NextLimiter]_vars

\* The admission gate: the operator has configured authentication and created
\* keys or not, and clients submit on the compat route with any header, on
\* concurrent connections, now or a minute later; no worker runs.
InitGate ==
    /\ Started(0, {}, MaxTasks)
    /\ SideIdle
    /\ \E auth \in BOOLEAN, token \in {NoToken, AdminToken}, keys \in KeyTables :
           GateStarted(auth, token, keys)

NextGate ==
    \/ \E c \in Connections, token \in Headers : GateLookup(c, token)
    \/ \E c \in Connections : GateAdmit(c)
    \/ \E c \in Connections : QuotaCheck(c)
    \/ \E c \in Connections, p \in Payloads : EnqueueCompat(c, p)
    \/ \E c \in Connections : RecordTask(c)
    \/ Elapse(Minute)

SpecGate == InitGate /\ [][NextGate]_vars

\* The cancel route: authentication is configured as in InitGate, clients
\* create tasks on POST /api/v1/tasks and send cancel requests with any header.
NextCancel ==
    \/ \E p \in Payloads : Enqueue(p)
    \/ \E token \in Headers, id \in 1..MaxTasks : CancelRequest(token, id)
    \/ Elapse(Minute)

SpecCancel == InitGate /\ [][NextCancel]_vars

\* Key management: with authentication enabled the operator creates,
\* regenerates and deletes keys while clients send requests with any token
\* ever issued, on concurrent connections.
InitKeys == Started(0, {}, MaxTasks) /\ GateStarted(TRUE, AdminToken, NoKeys) /\ SideIdle

NextKeys ==
    \/ \E row \in KeyRows(keys_made + 1) :
           /\ row.expires_at = <<>> /\ row.daily_quota = 0 /\ row.scopes = DefaultScopes
           /\ CreateKey(row)
    \/ \E id \in KeyIds : RegenerateStore(id)
    \/ \E id \in KeyIds : DeleteStore(id)
    \/ KeyEvict
    \/ \E c \in Connections, token \in IssuedTokens : GateLookup(c, token)
    \/ \E c \in Connections : GateAdmit(c)

SpecKeys == InitKeys /\ [][NextKeys]_vars

\* pick_session on any pool: the store holds one session more than the
\* operator adds elsewhere, in any state an earlier run may have left, and
\* the workers claim tasks and reserve sessions as time passes.
PickIds == 1..(MaxSessions + 1)

InitPick ==
    /\ \E table \in [PickIds -> StoredSessions] : Restarted(Concurrency, table, MaxTasks)
    /\ GateStarted(FALSE, NoToken, NoKeys)
    /\ SideIdle

NextPick ==
    \/ \E p \in Payloads : Enqueue(p)
    \/ \E w \in Workers : Claim(w)
    \/ \E w \in Workers : PickStore(w)
    \/ \E w \in Workers : PickSync(w)
    \/ \E w \in Workers : Requeue(w)
    \/ \E w \in Workers : Assign(w)
    \/ Tick

SpecPick == InitPick /\ [][NextPick]_vars

\* Retries: one worker on the pool's sessions, clients submit requests with
\* and without the optional attributes, cancel and retry tasks by any id.
InitClone == Started(1, SessionIds, MaxTasks) /\ GateStarted(FALSE, NoToken, NoKeys) /\ SideIdle

NextClone ==
    \/ \E w \in Workers : Worker(w)
    \/ \E req \in Requests : Enqueue(Columns(req))
    \/ \E id \in 1..(MaxTasks + 1) : Cancel(id)
    \/ \E id \in 1..(MaxTasks + 1) : Retry(id)

SpecClone == InitClone /\ [][NextClone]_vars

\* ---------------------------------------------------------------------------
\* BrowserService: the signing oracle (jimeng/browser.rs)
\* ---------------------------------------------------------------------------
\* A fetch call takes the sessions lock for the lookup, gives it up, builds a
\* page over several awaits and takes the lock again for the insert. A page is
\* a handle; a page counts as live while the map or a call in progress holds it.

MaxTokens == 2
MaxPages == 2
MaxInstant == 903

SESSION_IDLE_TIMEOUT == 600

SessionTokens == 1..MaxTokens

\* The stretches of time between two steps of the oracle.
Waits == {SESSION_IDLE_TIMEOUT \div 2, SESSION_IDLE_TIMEOUT \div 2 + 1}

OracleFrame ==
    /\ UNCHANGED now
    /\ UNCHANGED taskVars
    /\ UNCHANGED poolVars
    /\ UNCHANGED workerVars
    /\ UNCHANGED gateVarsButInstant
    /\ UNCHANGED adapterVars
    /\ UNCHANGED <<deadline, notify>>

\* fetch(session_token, url, body) is called.
FetchCall(c, token) ==
    /\ fetch[c].pc = "idle"
    /\ fetch' = [fetch EXCEPT ![c] = [pc |-> "lookup", token |-> token, page |-> NULL]]
    /\ NoResponse
    /\ UNCHANGED <<browser, browser_sessions, pages_made, instant>>
    /\ OracleFrame

\* get_page, "Check existing session": under the write lock, a hit sets
\* last_used and returns the stored page
GetPageLookup(c) ==
    /\ fetch[c].pc = "lookup"
    /\ LET t == fetch[c].token IN
         IF t \in DOMAIN browser_sessions
         THEN /\ browser_sessions' = [browser_sessions EXCEPT ![t].last_used = instant]
              /\ fetch' = [fetch EXCEPT ![c].pc = "evaluate",
                                        ![c].page = browser_sessions[t].page]
         ELSE /\ fetch' = [fetch EXCEPT ![c].pc = "ensure"]
              /\ UNCHANGED browser_sessions
    /\ NoResponse
    /\ UNCHANGED <<browser, pages_made, instant>>
    /\ OracleFrame

\* The call returns Err: its locals (the page it built, if any) are dropped.
FetchErr(c) ==
    /\ fetch' = [fetch EXCEPT ![c] = NoFetch]
    /\ resp' = [op |-> "fetch", id |-> c, ok |-> FALSE]

\* ensure_browser: the launch happens under the write lock after a second
\* look at the Option, so one launch at most succeeds; a launch may fail.
EnsureBrowser(c) ==
    /\ fetch[c].pc = "ensure"
    /\ \/ /\ browser' = TRUE
          /\ fetch' = [fetch EXCEPT ![c].pc = "new_page"]
          /\ NoResponse
       \/ /\ ~browser
          /\ FetchErr(c)
          /\ UNCHANGED browser
    /\ UNCHANGED <<browser_sessions, pages_made, instant>>
    /\ OracleFrame

\* browser.new_page("about:blank")
NewPage(c) ==
    /\ fetch[c].pc = "new_page"
    /\ \/ /\ pages_made < MaxPages
          /\ pages_made' = pages_made + 1
          /\ fetch' = [fetch EXCEPT ![c].pc = "prepare", ![c].page = pages_made + 1]
          /\ NoResponse
       \/ /\ FetchErr(c)
          /\ UNCHANGED pages_made
    /\ UNCHANGED <<browser, browser_sessions, instant>>
    /\ OracleFrame

\* User agent, cookies, navigation and the wait for the signing shim: any of
\* these awaits may return an error; the wait itself gives up after 30 s and
\* goes on.
PreparePage(c) ==
    /\ fetch[c].pc = "prepare"
    /\ \/ /\ fetch' = [fetch EXCEPT ![c].pc = "insert"]
          /\ NoResponse
       \/ FetchErr(c)
    /\ UNCHANGED <<browser, browser_sessions, pages_made, instant>>
    /\ OracleFrame

\* sessions.insert(session_token, BrowserSession { page, last_used: now })
InsertSession(c) ==
    /\ fetch[c].pc = "insert"
    /\ browser_sessions' = With(browser_sessions, fetch[c].token,
                                [page |-> fetch[c].page, last_used |-> instant])
    /\ fetch' = [fetch EXCEPT ![c].pc = "evaluate"]
    /\ NoResponse
    /\ UNCHANGED <<browser, pages_made, instant>>
    /\ OracleFrame

\* page.evaluate(js): a transport error returns Err at once; a result with an
\* "error" member goes on to close_session; otherwise the text is returned.
Evaluate(c) ==
    /\ fetch[c].pc = "evaluate"
    /\ \/ /\ fetch' = [fetch EXCEPT ![c] = NoFetch]
          /\ resp' = [op |-> "fetch", id |-> c, ok |-> TRUE]
       \/ FetchErr(c)
       \/ /\ fetch' = [fetch EXCEPT ![c].pc = "close"]
          /\ NoResponse
    /\ UNCHANGED <<browser, browser_sessions, pages_made, instant>>
    /\ OracleFrame

\* close_session(token): sessions.remove(token), then bail!
CloseSession(c) ==
    /\ fetch[c].pc = "close"
    /\ browser_sessions' = Without(browser_sessions, fetch[c].token)
    /\ FetchErr(c)
    /\ UNCHANGED <<browser, pages_made, instant>>
    /\ OracleFrame

\* Variant of cleanup_idle_sessions: a session idle for the timeout is dropped too.
cleanup_idle_sessions_AtTimeout(map, t) ==
    [k \in {x \in DOMAIN map : ~(t - map[x].last_used >= SESSION_IDLE_TIMEOUT)} |-> map[k]]

\* cleanup_idle_sessions: sessions.retain(|_, s| !(now - s.last_used > SESSION_IDLE_TIMEOUT))
cleanup_idle_sessions(map, t) ==
    [k \in {x \in DOMAIN map : ~(t - map[x].last_used > SESSION_IDLE_TIMEOUT)} |-> map[k]]

\* The periodic tick that calls cleanup_idle_sessions.
CleanupTick ==
    /\ browser_sessions' = cleanup_idle_sessions(browser_sessions, instant)
    /\ resp' = [op |-> "cleanup", evicted |-> DOMAIN browser_sessions \ DOMAIN browser_sessions']
    /\ UNCHANGED <<browser, fetch, pages_made, instant>>
    /\ OracleFrame

\* Time passes between two steps of the oracle.
Wait(d) ==
    /\ instant + d <= MaxInstant
    /\ instant' = instant + d
    /\ NoResponse
    /\ UNCHANGED oracleVars
    /\ OracleFrame

InitOracle == Started(0, {}, 0) /\ GateStarted(FALSE, NoToken, NoKeys) /\ SideIdle

NextOracle ==
    \/ \E c \in Fetchers, t \in SessionTokens : FetchCall(c, t)
    \/ \E c \in Fetchers : GetPageLookup(c)
    \/ \E c \in Fetchers : EnsureBrowser(c)
    \/ \E c \in Fetchers : NewPage(c)
    \/ \E c \in Fetchers : PreparePage(c)
    \/ \E c \in Fetchers : InsertSession(c)
    \/ \E c \in Fetchers : Evaluate(c)
    \/ \E c \in Fetchers : CloseSession(c)
    \/ CleanupTick
    \/ \E d \in Waits : Wait(d)

SpecOracle == InitOracle /\ [][NextOracle]_vars

\* The tick is periodic: it goes on running for as long as the process does.
FairOracle == SpecOracle /\ WF_vars(CleanupTick)

\* ---------------------------------------------------------------------------
\* execute_task: the attached materials and the submit call
\* ---------------------------------------------------------------------------
\* A file is the MIME type of its part; its name is its position in the body.
\* An upload is an exchange with the upstream that returns Ok or Err.

MaxFiles == 3

Mimes == {"image/png", "video/mp4", "audio/mpeg", "application/pdf"}

\* detect_material_type_from_mime: by prefix, Image when no prefix matches
detect_material_type_from_mime(mime) ==
    CASE mime = "image/png" -> "Image"
      [] mime = "video/mp4" -> "Video"
      [] mime = "audio/mpeg" -> "Audio"
      [] OTHER -> "Image"

\* The bodies of extract_multipart_files: up to MaxFiles file parts.
FileLists == UNION {[1..n -> Mimes] : n \in 0..MaxFiles}

\* UploadedMaterial of the file at position i: an image carries the uri that
\* upload_image returned, a video or audio the vid that upload_media returned.
Uploaded(i, material_type) ==
    [material_type |-> material_type,
     uri |-> IF material_type = "Image" THEN <<<<"uri", i>>>> ELSE <<>>,
     vid |-> IF material_type = "Image" THEN <<>> ELSE <<<<"vid", i>>>>,
     name |-> i]

AdapterFrame ==
    /\ NoResponse
    /\ UNCHANGED now
    /\ UNCHANGED taskVars
    /\ UNCHANGED poolVars
    /\ UNCHANGED workerVars
    /\ UNCHANGED gateVars
    /\ UNCHANGED oracleVars
    /\ UNCHANGED <<deadline, notify>>

\* process_materials, one turn of the loop, Ok arm: materials.push(...)
UploadOk ==
    /\ stage = "materials"
    /\ file_idx < Len(files)
    /\ file_idx' = file_idx + 1
    /\ materials' = Append(materials,
                           Uploaded(file_idx + 1, detect_material_type_from_mime(files[file_idx + 1])))
    /\ UNCHANGED <<is_seedance, files, failed, stage, submit_args, submit_payload, submit_result>>
    /\ AdapterFrame

\* Variant of UploadErr: the error is propagated, the pipeline ends.
UploadErr_Fatal ==
    /\ stage = "materials"
    /\ file_idx < Len(files)
    /\ file_idx' = file_idx + 1
    /\ failed' = failed \cup {file_idx + 1}
    /\ stage' = "failed"
    /\ submit_result' = [NoSubmit EXCEPT !.msg = "upload failed"]
    /\ UNCHANGED <<is_seedance, files, materials, submit_args, submit_payload>>
    /\ AdapterFrame

\* process_materials, one turn of the loop, Err arm: tracing::warn!, nothing pushed
UploadErr ==
    /\ stage = "materials"
    /\ file_idx < Len(files)
    /\ file_idx' = file_idx + 1
    /\ failed' = failed \cup {file_idx + 1}
    /\ UNCHANGED <<is_seedance, files, materials, stage, submit_args, submit_payload, submit_result>>
    /\ AdapterFrame

\* materials.iter().find(|m| m.material_type == Image).and_then(|m| m.uri)
first_frame_uri(list) ==
    LET images == SelectSeq(list, LAMBDA m : m.material_type = "Image")
    IN IF images = <<>> THEN <<>> ELSE images[1].uri

\* execute_task calls the submit function of the model's family:
\* submit_seedance_video(..., &materials), or
\* submit_regular_video(..., first_frame_uri, None).
SubmitCall ==
    /\ stage = "materials"
    /\ file_idx = Len(files)
    /\ submit_args' = IF is_seedance THEN materials ELSE first_frame_uri(materials)
    /\ stage' = "submit"
    /\ UNCHANGED <<is_seedance, files, file_idx, materials, failed, submit_payload, submit_result>>
    /\ AdapterFrame

InitMaterials ==
    /\ Started(0, {}, 0) /\ GateStarted(FALSE, NoToken, NoKeys) /\ OracleIdle /\ PollIdle /\ NotifyNew
    /\ \E seedance \in BOOLEAN, attached \in FileLists :
           AdapterStarted(seedance, attached, NoPayload)

NextMaterials ==
    \/ UploadOk
    \/ UploadErr
    \/ SubmitCall

SpecMaterials == InitMaterials /\ [][NextMaterials]_vars

\* ---------------------------------------------------------------------------
\* The process stops and is started again (main)
\* ---------------------------------------------------------------------------

\* The process stops wherever its tasks stand, and main runs again: the store
\* is opened as it was left (migrate creates what is missing and changes no
\* row), load_sessions reads the `sessions` rows into the mirror, the rate
\* limiter and the signing oracle are constructed empty, the workers start at
\* the top of worker_loop. Nothing is written to `tasks` or `sessions`.
Restart ==
    /\ \E w \in Workers : pc[w] \notin {"wait", "off"}
    /\ cache' = sessions
    /\ admin' = Idle
    /\ pc' = [w \in Workers |-> IF pc[w] = "off" THEN "off" ELSE "wait"]
    /\ task_id' = [w \in Workers |-> NULL]
    /\ session' = [w \in Workers |-> NoPick]
    /\ result' = [w \in Workers |-> NoResult]
    /\ nrel' = [w \in Workers |-> 0]
    /\ buckets' = [k \in {} |-> NULL]
    /\ inflight' = [c \in Connections |-> Closed]
    /\ key_admin' = KeyIdle
    /\ bearer' = NoToken
    /\ browser' = FALSE
    /\ browser_sessions' = [t \in {} |-> NULL]
    /\ fetch' = [c \in Fetchers |-> NoFetch]
    /\ NoResponse
    /\ UNCHANGED <<tasks, acked, budget, sessions, added, picks, releases, now>>
    /\ UNCHANGED <<auth_enabled, admin_token, keys_made, api_keys, usage, instant,
                   grants, burst, submitted>>
    /\ deadline' = [w \in Workers |-> 0]
    /\ notify' = 0
    /\ UNCHANGED <<pages_made, adapterVars>>

InitCrash == Started(Concurrency, SessionIds, MaxTasks) /\ GateStarted(FALSE, NoToken, NoKeys) /\ SideIdle

NextCrash ==
    \/ \E w \in Workers : Worker(w)
    \/ \E p \in Payloads : Enqueue(p)
    \/ Restart

SpecCrash == InitCrash /\ [][NextCrash]_vars

\* ---------------------------------------------------------------------------
\* The submit response: the draft identifier
\* ---------------------------------------------------------------------------
\* The JSON values a location of the response can hold: null, a string, an
\* integer (text: its decimal form), or a value of another type.
JsonValues ==
    {[kind |-> "null", text |-> ""], [kind |-> "string", text |-> "h1"],
     [kind |-> "string", text |-> "h2"], [kind |-> "integer", text |-> "7"],
     [kind |-> "other", text |-> ""]}

\* Value::pointer(path): None for a location that is missing, Some(value)
\* for one that is there, a null included.
Located == {<<>>} \cup {<<v>> : v \in JsonValues}

\* The parsed bodies: `ret` (absent, or the number it parses to) and the three
\* locations /data/aigc_data/history_record_id, /data/history_record_id and
\* /aigc_data/history_record_id.
SubmitPayloads == [ret : {<<>>, <<0>>, <<1>>}, data_aigc : Located, data : Located, aigc : Located]

\* Option::or_else
or_else(a, b) == IF a # <<>> THEN a ELSE b

\* .and_then(|v| v.as_str().or_else(|| v.as_i64().map(|_| "")).and_then(|_| Some(v)))
str_or_i64(a) == IF a # <<>> /\ a[1].kind \in {"string", "integer"} THEN a ELSE <<>>

\* submit_regular_video: the location the identifier is taken from
history_id_regular(payload) ==
    or_else(or_else(str_or_i64(payload.data_aigc), payload.data), payload.aigc)

\* submit_seedance_video: the location the identifier is taken from
history_id_seedance(payload) ==
    or_else(or_else(payload.data_aigc, payload.aigc), payload.data)

\* match history_id { Some(v) => as_str / as_i64 / bail, None => bail }
history_id_result(found) ==
    IF found = <<>>
    THEN [ok |-> FALSE, history_record_id |-> "", msg |-> "No history_record_id"]
    ELSE IF found[1].kind \in {"string", "integer"}
    THEN [ok |-> TRUE, history_record_id |-> found[1].text, msg |-> ""]
    ELSE [ok |-> FALSE, history_record_id |-> "", msg |-> "Unexpected history_record_id type"]

\* The end of both submit functions: the API-level error check on `ret`, then
\* the identifier.
submit_response(seedance, payload) ==
    IF payload.ret # <<>> /\ payload.ret[1] # 0
    THEN [ok |-> FALSE, history_record_id |-> "", msg |-> "Submit failed"]
    ELSE history_id_result(IF seedance THEN history_id_seedance(payload)
                           ELSE history_id_regular(payload))

\* The upstream has answered the submit call: the function returns, and
\* execute_task goes on to polling or returns the error.
SubmitResponse ==
    /\ stage = "submit"
    /\ submit_result' = submit_response(is_seedance, submit_payload)
    /\ stage' = IF submit_result'.ok THEN "polling" ELSE "failed"
    /\ UNCHANGED <<is_seedance, files, file_idx, materials, failed, submit_args, submit_payload>>
    /\ AdapterFrame

\* A pipeline without attached files, for either family and any response body.
InitDraft ==
    /\ Started(0, {}, 0) /\ GateStarted(FALSE, NoToken, NoKeys) /\ OracleIdle /\ PollIdle /\ NotifyNew
    /\ \E seedance \in BOOLEAN, body \in SubmitPayloads :
           AdapterStarted(seedance, <<>>, body)

NextDraft ==
    \/ SubmitCall
    \/ SubmitResponse

SpecDraft == InitDraft /\ [][NextDraft]_vars

\* ---------------------------------------------------------------------------
\* Properties
\* ---------------------------------------------------------------------------

\* C1: once a task's status is succeeded, failed or cancelled, no step changes
\* that status again.
C1_TerminalNeverLeft ==
    [][\A i \in DOMAIN tasks :
          tasks[i].status \in Terminal => tasks'[i].status = tasks[i].status]_vars

\* The edges of the transition graph: the chain, and any non-terminal status
\* to failed or cancelled.
Edges ==
    {<<"queued", "submitting">>, <<"submitting", "polling">>,
     <<"polling", "downloading">>, <<"downloading", "succeeded">>}
    \cup ((TaskStatus \ Terminal) \X {"failed", "cancelled"})

\* C2: every change of a task's status is an edge of the transition graph.
C2_OnlyGraphEdges ==
    [][\A i \in DOMAIN tasks :
          tasks'[i].status # tasks[i].status
              => <<tasks[i].status, tasks'[i].status>> \in Edges]_vars

\* C3: at no time do two workers hold the same task (a task is claimed again
\* only after its holder has written it back to queued and let go of it).
C3_AtMostOneHolder ==
    \A w, v \in Workers :
        (w # v /\ task_id[w] # NULL) => task_id[w] # task_id[v]

\* C3 witness: two workers have both come out of the claim step with a task.
C3_Witness ==
    \E w, v \in Workers : w # v /\ pc[w] = "pick" /\ pc[v] = "pick"

\* C4: a claim always takes, among the tasks queued at that moment, the one
\* that was enqueued first (ids are handed out in the order of the inserts).
C4_ClaimsEarliestEnqueued ==
    [][\A w \in Workers :
          (pc[w] = "wait" /\ pc'[w] = "pick")
              => \A j \in QueuedIds : task_id'[w] <= j]_vars

\* The workers that hold a reservation on session s: picked, not yet released.
Reserving(s) == {w \in Workers : session[w].id = s /\ nrel[w] = 0}

\* C5: no session's active_tasks exceeds the cap, and no more workers than
\* the cap hold a reservation on one session at the same time.
C5_CapRespected ==
    \A s \in DOMAIN sessions :
        /\ sessions[s].active_tasks <= 2
        /\ Cardinality(Reserving(s)) <= 2

\* C5 witness: a session is full and a further worker has been refused.
C5_Witness ==
    \E s \in DOMAIN sessions, w \in Workers :
        /\ sessions[s].active_tasks = 2
        /\ Cardinality(Reserving(s)) = 2
        /\ pc[w] = "requeue"

\* C6: a worker never releases twice after one pick, and when it lets go of a
\* picked session at the end of its iteration it has released exactly once.
C6_ExactlyOneRelease ==
    [][\A w \in Workers :
          /\ nrel'[w] <= 1
          /\ (session[w].id # NULL /\ session'[w].id = NULL) => nrel[w] = 1]_vars

\* C6 witness: a worker has released on the cancellation path.
C6_Witness ==
    \E w \in Workers :
        pc[w] = "release_sync" /\ result[w].branch = "cancelled" /\ nrel[w] = 1

\* No worker is inside an iteration.
Quiesced == \A w \in Workers : pc[w] \in {"wait", "off"}

\* C7: in the store, active_tasks is never negative, and it is 0 for every
\* session whenever no worker is inside an iteration.
C7_NonNegativeAndZeroWhenQuiesced ==
    \A s \in DOMAIN sessions :
        /\ sessions[s].active_tasks >= 0
        /\ Quiesced => sessions[s].active_tasks = 0

\* C7 witness: the system is quiesced after two tasks ran on one session.
C7_Witness ==
    /\ Quiesced
    /\ \E s \in DOMAIN sessions : sessions[s].total_tasks = 2

\* C8: for every session, successful picks = releases + current active_tasks.
C8_PicksEqualReleasesPlusActive ==
    \A s \in DOMAIN sessions :
        picks[s] = releases[s] + sessions[s].active_tasks

\* C8 witness: a session picked twice, released once, one reservation left.
C8_Witness ==
    \E s \in DOMAIN sessions :
        picks[s] = 2 /\ releases[s] = 1 /\ sessions[s].active_tasks = 1

\* C9: a cancel request is answered ok, and sets the status to cancelled,
\* exactly when the task exists with status queued, submitting or polling;
\* otherwise it is answered "not changed" and no row changes.
C9_CancelIffCancellable ==
    [][resp'.op = "cancel" =>
          LET id == resp'.id IN
          IF id \in DOMAIN tasks /\ tasks[id].status \in {"queued", "submitting", "polling"}
          THEN /\ resp'.ok
               /\ tasks'[id].status = "cancelled"
               /\ \A j \in DOMAIN tasks : j # id => tasks'[j] = tasks[j]
          ELSE /\ ~resp'.ok
               /\ tasks' = tasks]_vars

\* C9 witness: after an earlier cancel was accepted, a cancel of a task in a
\* terminal status has been refused.
C9_Witness ==
    /\ acked # {}
    /\ resp.op = "cancel" /\ ~resp.ok
    /\ resp.id \in DOMAIN tasks /\ tasks[resp.id].status \in Terminal

\* C10: a task whose cancel was accepted before the success write is not
\* recorded as succeeded and gets no video_url.
C10_LateCancelWins ==
    \A i \in acked : tasks[i].status # "succeeded" /\ tasks[i].video_url = NULL

\* C11: a task whose status is cancelled is never overwritten with failed: no
\* step takes a row from cancelled to failed or records an error_kind on it.
C11_CancelledNeverFailed ==
    [][\A i \in DOMAIN tasks :
          tasks[i].status = "cancelled"
              => /\ tasks'[i].status # "failed"
                 /\ tasks'[i].error_kind = tasks[i].error_kind]_vars

\* C12: a task whose cancel was accepted reads cancelled from then on, also
\* while and after the worker that holds it goes through its pipeline.
C12_AckedReadsCancelled ==
    \A i \in acked : tasks[i].status = "cancelled"

\* C13: a worker whose task was written failed with error_kind auth ends its
\* iteration only through mark_unhealthy, which leaves healthy = false in the
\* store and then in the listing; pick never returns an unhealthy session; and
\* healthy goes back to true, in the store and in the listing, only by an
\* operator's enabling toggle of that session.
C13_AuthFailureDemotes ==
    [][/\ \A w \in Workers :
            LET s == session[w].id
                t == task_id[w]
            IN  /\ (/\ pc[w] # "wait" /\ pc'[w] = "wait" /\ t # NULL
                    /\ tasks[t].status = "failed" /\ tasks[t].error_kind = "auth")
                       => pc[w] = "demote_sync"
                /\ (pc[w] = "demote" /\ pc'[w] = "demote_sync" /\ s \in DOMAIN sessions')
                       => ~sessions'[s].healthy
                /\ (pc[w] = "demote_sync" /\ pc'[w] = "wait" /\ s \in DOMAIN cache')
                       => ~cache'[s].healthy
                /\ (pc[w] = "pick" /\ pc'[w] = "pick_sync")
                       => sessions[session'[w].id].healthy
       /\ \A s \in DOMAIN sessions \cap DOMAIN sessions' :
            (~sessions[s].healthy /\ sessions'[s].healthy)
                => admin' = [op |-> "toggle", id |-> s, enabled |-> TRUE]
       /\ \A s \in DOMAIN cache \cap DOMAIN cache' :
            (~cache[s].healthy /\ cache'[s].healthy)
                => admin = [op |-> "toggle", id |-> s, enabled |-> TRUE]]_vars

\* C13 witness: a task ended failed with error_kind auth, its worker has gone
\* back to waiting, the session reads unhealthy in the store and in the
\* listing, and a later task was claimed and written back for lack of a session.
C13_Witness ==
    \E i, j \in DOMAIN tasks :
        /\ tasks[i].status = "failed" /\ tasks[i].error_kind = "auth"
        /\ \A w \in Workers : task_id[w] # i
        /\ tasks[i].session_pool_id \in DOMAIN sessions \cap DOMAIN cache
        /\ ~sessions[tasks[i].session_pool_id].healthy
        /\ ~cache[tasks[i].session_pool_id].healthy
        /\ tasks[j].status = "queued" /\ tasks[j].started_at # NULL

\* C14: the step a worker takes when pick returned nothing writes its task
\* back to queued and changes no session row or counter; no task is written
\* failed before a session was assigned to it; and if from some moment on a
\* session stays eligible, every enqueued task is eventually given a session.
C14_RequeuedUntilSessionEligible ==
    /\ [][/\ \A w \in Workers :
               (pc[w] = "requeue" /\ pc'[w] # "requeue")
                   => /\ tasks'[task_id[w]].status = "queued"
                      /\ pc'[w] = "wait"
                      /\ UNCHANGED <<sessions, cache, picks, releases>>
          /\ \A w \in Workers :
               (pc[w] = "pick" /\ pc'[w] = "requeue")
                   => UNCHANGED <<tasks, sessions, cache, picks, releases>>
          /\ \A i \in DOMAIN tasks :
               (tasks[i].status # "failed" /\ tasks'[i].status = "failed")
                   => tasks[i].session_pool_id # NULL]_vars
    /\ \A i \in 1..MaxTasks :
          (<>[](Eligible # {}))
              => []((i \in DOMAIN tasks)
                       => <>(i \in DOMAIN tasks /\ tasks[i].session_pool_id # NULL))

\* C14 witness: a task that was claimed and written back is queued again and
\* a session is now eligible.
C14_Witness ==
    /\ Eligible # {}
    /\ \E i \in DOMAIN tasks :
          /\ tasks[i].status = "queued"
          /\ tasks[i].started_at # NULL
          /\ tasks[i].session_pool_id = NULL

C17_BurstOfLimit ==
    [][\A k \in KeyIds :
          (resp'.op = "check" /\ resp'.id = k /\ resp'.limit > 0 /\ burst'[k].full)
              => /\ resp'.result.allowed <=> burst'[k].n <= resp'.limit
                 /\ ~resp'.result.allowed => resp'.result.reset_secs > 0]_vars

\* C17 witness: on a bucket used a minute ago, a run of R allowed checks has
\* just been followed by a denied one.
C17_Witness ==
    \E k \in KeyIds :
        /\ resp.op = "check" /\ resp.id = k /\ ~resp.result.allowed
        /\ burst[k].full /\ burst[k].n = burst[k].limit + 1
        /\ \E x \in 1..Len(grants[k].held) : grants[k].held[x] + Minute <= instant

\* C18: a check with limit 0 is allowed and leaves the bucket map as it was.
C18_ZeroLimitIsFree ==
    [][(resp'.op = "check" /\ resp'.limit = 0)
          => /\ resp'.result.allowed
             /\ buckets' = buckets]_vars

\* C18 witness: a check with limit 0 was answered while the key's bucket,
\* left from earlier checks under a positive limit, had no whole token.
C18_Witness ==
    /\ resp.op = "check" /\ resp.limit = 0 /\ resp.result.allowed
    /\ resp.id \in DOMAIN buckets
    /\ buckets[resp.id].tokens < Minute


\* C15: a key with daily_quota = Q > 0 whose callers are ApiKey callers (it
\* has no admin scope) never has more than Q tasks enqueued for it on one
\* day, also when its submissions are handled concurrently.
C15_QuotaRespected ==
    \A k \in DOMAIN api_keys :
        (api_keys[k].daily_quota > 0 /\ "admin" \notin api_keys[k].scopes)
            => submitted[k] <= api_keys[k].daily_quota

\* C19: with authentication enabled, every verdict of the gate (a rejection,
\* or the request passed on with its Caller) is the one of the first check
\* that fails in the order: no bearer -> 401; the admin token -> Admin;
\* unknown token -> 401; disabled key -> 403; expired key -> 403; key with
\* scope admin -> Admin, the limiter left alone; the limiter denies -> 429;
\* else the key's ApiKey caller. A rejection changes no last_used_at and no
\* usage counter; a key that is admitted gets exactly one more request counted.
C19_GateOrder ==
    [][(auth_enabled /\ resp'.op = "gate") =>
        LET token == bearer'
            status == resp'.status
            found == {k \in DOMAIN api_keys : api_keys[k].key_hash = hash_key(token)}
            counted(k) == /\ usage'[k].request_count = usage[k].request_count + 1
                          /\ usage'[k].task_count = usage[k].task_count
        IN
        /\ status \in {401, 403, 429} => (api_keys' = api_keys /\ usage' = usage)
        /\ IF token = NoToken THEN status = 401
           ELSE IF token = admin_token
           THEN status = 0 /\ resp'.caller = EnvAdmin /\ usage' = usage
           ELSE IF found = {} THEN status = 401
           ELSE \A k \in found :
                IF ~api_keys[k].enabled THEN status = 403
                ELSE IF /\ api_keys[k].expires_at # <<>>
                        /\ instant > api_keys[k].expires_at[1]
                THEN status = 403
                ELSE IF "admin" \in api_keys[k].scopes
                THEN /\ status = 0
                     /\ resp'.caller.kind = "admin"
                     /\ buckets' = buckets
                     /\ counted(k)
                ELSE IF ~check(buckets, k, api_keys[k].rate_limit, instant).result.allowed
                THEN status = 429
                ELSE /\ status = 0
                     /\ resp'.caller.kind = "api_key"
                     /\ resp'.caller.key_id = k
                     /\ counted(k)]_vars

\* C19 happens: a key's request is answered 429 after an earlier request of
\* the key was admitted and counted.
C19_Witness ==
    /\ auth_enabled
    /\ resp.op = "gate"
    /\ resp.status = 429
    /\ bearer.kind = "key"
    /\ usage[bearer.id].request_count = 1

\* C20: with authentication enabled, a cancel request changes a task only if
\* its bearer token is one the gate admits with a caller that has scope
\* task:cancel: the admin token, or the token of an enabled, unexpired key
\* whose scopes hold admin or task:cancel. A request without a bearer, or
\* with a key lacking the scope, changes no task.
C20_CancelNeedsScope ==
    [][(auth_enabled /\ resp'.op = "cancel" /\ tasks' # tasks) =>
        LET token == bearer'
            found == {k \in DOMAIN api_keys : api_keys[k].key_hash = hash_key(token)}
        IN
        /\ token # NoToken
        /\ \/ token = admin_token
           \/ \E k \in found :
                /\ api_keys[k].enabled
                /\ ~Expired(api_keys[k], instant)
                /\ \/ "admin" \in api_keys[k].scopes
                   \/ "task:cancel" \in api_keys[k].scopes]_vars

\* The tokens that authenticate as key k on the table `rows`: lookup_by_hash
\* of their hash returns the row of k.
Accepted(rows, k) ==
    {t \in IssuedTokens : k \in DOMAIN rows /\ rows[k].key_hash = hash_key(t)}

\* The response r returns a token for key k (create_key, regenerate_key).
Returned(r, k) == r.op \in {"create", "regenerate"} /\ r.id = k /\ r.ok

\* C21: at any time at most one token authenticates as a given key (its hash
\* is the one the key's row holds); a create or regenerate that returns a
\* token makes that token the only one accepted for the key, the token it
\* returns was not accepted before, and no other step makes a token
\* accepted; the row holds the hash and the prefix of the token, in its
\* columns key_hash and key_prefix, and no other column is set from it.
C21_OneTokenPerKey ==
    /\ [](\A k \in KeyIds : Cardinality(Accepted(api_keys, k)) <= 1)
    /\ [](\A k \in DOMAIN api_keys : \A t \in Accepted(api_keys, k) :
            api_keys[k].key_prefix = key_prefix(t))
    /\ [][\A k \in KeyIds :
            /\ (key_admin'.op = "regenerate" /\ key_admin'.id = k /\ key_admin.op = "idle")
                   => /\ Accepted(api_keys', k) = {key_admin'.token}
                      /\ key_admin'.token \notin Accepted(api_keys, k)
            /\ Returned(resp', k)
                   => /\ Accepted(api_keys', k) \subseteq {resp'.key}
                      /\ resp'.op = "create" => Accepted(api_keys', k) = {resp'.key}
            /\ (~Returned(resp', k) /\ ~(key_admin'.op = "regenerate" /\ key_admin.op = "idle"))
                   => Accepted(api_keys', k) \subseteq Accepted(api_keys, k)]_vars

\* C21 happens: a key was regenerated twice and a request with its second
\* token, sent before the second regeneration, is past the lookup.
C21_Witness ==
    /\ resp.op = "regenerate"
    /\ resp.ok
    /\ resp.key.id = resp.id + 2 * MaxKeys
    /\ \E c \in Connections : inflight[c].pc = "found" /\ inflight[c].token.id = resp.id + MaxKeys

\* C30: every token bucket is held under the id of a key that exists, or of
\* a key whose deletion is in progress (its row is deleted and the handler
\* has not yet evicted the bucket): once delete_key has answered, no bucket
\* is left or created under the id, whatever requests were in flight.
C30_BucketsOfExistingKeys ==
    \A k \in DOMAIN buckets :
        \/ k \in DOMAIN api_keys
        \/ key_admin.op = "delete" /\ key_admin.id = k

\* C22: a pick reserves only a session that is enabled, healthy and holds
\* fewer than two reservations when the statement runs; when there is no such
\* session the pick returns nothing and changes no session row and nothing
\* in the mirror.
C22_PickOnlyEligible ==
    [][\A w \in Workers : (pc[w] = "pick" /\ pc'[w] # "pick") =>
        LET ok(s) == /\ sessions[s].enabled
                     /\ sessions[s].healthy
                     /\ sessions[s].active_tasks < SessionCap
        IN
        IF \E s \in DOMAIN sessions : ok(s)
        THEN /\ pc'[w] = "pick_sync"
             /\ session'[w].id \in DOMAIN sessions
             /\ ok(session'[w].id)
             /\ sessions'[session'[w].id].active_tasks <= SessionCap
        ELSE /\ pc'[w] = "requeue"
             /\ session'[w] = NoPick
             /\ sessions' = sessions
             /\ cache' = cache]_vars

\* C22 happens: a worker's pick returned nothing while the pool holds an
\* enabled, healthy session at the cap and an enabled session that is not
\* healthy, and another worker holds a reservation.
C22_Witness ==
    /\ \E w \in Workers : pc[w] = "requeue"
    /\ \E w \in Workers : pc[w] = "assign"
    /\ \E s \in DOMAIN sessions :
         sessions[s].enabled /\ sessions[s].healthy /\ sessions[s].active_tasks = SessionCap
    /\ \E s \in DOMAIN sessions : sessions[s].enabled /\ ~sessions[s].healthy

\* C23: a pick that reserves session s takes one whose last_used_at is
\* smallest among the sessions eligible when the statement runs (never used
\* sorts first), adds exactly one to its active_tasks, sets its last_used_at
\* to the current time, leaves its other columns and every other session as
\* they were, and returns the row as updated.
C23_PickLeastRecentlyUsed ==
    [][\A w \in Workers : (pc[w] = "pick" /\ pc'[w] = "pick_sync") =>
        LET s == session'[w].id
            ok(t) == /\ sessions[t].enabled
                     /\ sessions[t].healthy
                     /\ sessions[t].active_tasks < SessionCap
        IN
        /\ \A t \in DOMAIN sessions :
               ok(t) => sessions[s].last_used_at <= sessions[t].last_used_at
        /\ sessions' = [sessions EXCEPT ![s].active_tasks = sessions[s].active_tasks + 1,
                                        ![s].last_used_at = now]
        /\ session'[w].active_tasks = sessions'[s].active_tasks
        /\ session'[w].last_used_at = now]_vars

\* C23 happens: two sessions were eligible, one used before and one never
\* used or used earlier, a pick took one of them, and time has passed since
\* the start.
C23_Witness ==
    /\ now > 1
    /\ \E w \in Workers :
         /\ pc[w] = "pick_sync"
         /\ sessions[session[w].id].last_used_at = now
         /\ \E t \in DOMAIN sessions :
              /\ t # session[w].id
              /\ sessions[t].enabled /\ sessions[t].healthy
              /\ sessions[t].active_tasks < SessionCap
              /\ sessions[t].last_used_at = 1

\* C24: a queued task has no assigned session, and a task in submitting,
\* polling or downloading has one.
C24_SessionSetOnLeavingQueued ==
    \A i \in DOMAIN tasks :
        /\ tasks[i].status = "queued" => tasks[i].session_pool_id = NULL
        /\ tasks[i].status \in {"submitting", "polling", "downloading"}
               => tasks[i].session_pool_id # NULL

\* C25: every task whose status is not queued has started_at set, and a
\* started_at that is set is not modified by any later step.
C25_StartedAtSetOnce ==
    /\ [](\A i \in DOMAIN tasks :
            tasks[i].status # "queued" => tasks[i].started_at # NULL)
    /\ [][\A i \in DOMAIN tasks :
            tasks[i].started_at # NULL => tasks'[i].started_at = tasks[i].started_at]_vars

\* C26: a task has finished_at set exactly when its status is succeeded,
\* failed or cancelled.
C26_FinishedAtIffTerminal ==
    \A i \in DOMAIN tasks :
        tasks[i].status \in Terminal <=> tasks[i].finished_at # NULL

\* C27: a retry of an existing task appends exactly one task, under a new
\* identifier, in status queued, with the model, prompt, duration, ratio,
\* stored body and content type of the original and nothing else set, and
\* leaves every existing row, the original included, as it was whatever its
\* status; a retry of an unknown id creates nothing.
C27_RetryClones ==
    [][resp'.op = "retry" =>
        IF resp'.id \in DOMAIN tasks
        THEN /\ resp'.ok
             /\ DOMAIN tasks' = DOMAIN tasks \cup {Len(tasks) + 1}
             /\ \A i \in DOMAIN tasks : tasks'[i] = tasks[i]
             /\ tasks'[Len(tasks) + 1] =
                    [status |-> "queued", payload |-> tasks[resp'.id].payload,
                     created_at |-> now, started_at |-> NULL, finished_at |-> NULL,
                     session_pool_id |-> NULL, history_record_id |-> NULL,
                     video_url |-> NULL, error_kind |-> NULL]
        ELSE ~resp'.ok /\ tasks' = tasks]_vars

\* C27 happens: a task submitted with a stored body, a model, a duration and
\* a ratio was retried after it had reached a terminal status.
C27_Witness ==
    /\ resp.op = "retry"
    /\ resp.ok
    /\ tasks[resp.id].status \in Terminal
    /\ tasks[resp.id].payload = Columns(FullRequest)
    /\ tasks[Len(tasks)].payload = Columns(FullRequest)

\* C28: the store statement of toggle(id, true) leaves the row enabled and
\* healthy, that of toggle(id, false) leaves it disabled with healthy as it
\* was, and both leave active_tasks and the lifetime counters as they were;
\* the mirror write of the toggle does the same to the listing; pick never
\* reserves a disabled session, and a disabled session becomes enabled only
\* by the store statement of toggle(id, true).
C28_ToggleSetsFlagsOnly ==
    [][/\ (admin = Idle /\ admin'.op = "toggle") =>
            LET s == admin'.id IN
            /\ sessions'[s].enabled = admin'.enabled
            /\ sessions'[s].healthy = (admin'.enabled \/ sessions[s].healthy)
            /\ sessions' = [sessions EXCEPT ![s].enabled = sessions'[s].enabled,
                                            ![s].healthy = sessions'[s].healthy]
       /\ (admin.op = "toggle" /\ admin' = Idle /\ admin.id \in DOMAIN cache) =>
            LET s == admin.id IN
            /\ cache'[s].enabled = admin.enabled
            /\ cache'[s].healthy = (admin.enabled \/ cache[s].healthy)
            /\ cache' = [cache EXCEPT ![s].enabled = cache'[s].enabled,
                                      ![s].healthy = cache'[s].healthy]
       /\ \A w \in Workers : (pc[w] = "pick" /\ pc'[w] = "pick_sync")
            => sessions[session'[w].id].enabled
       /\ \A s \in DOMAIN sessions \cap DOMAIN sessions' :
            (~sessions[s].enabled /\ sessions'[s].enabled)
                => admin' = [op |-> "toggle", id |-> s, enabled |-> TRUE]]_vars

\* C28 happens: a session that holds a reservation and was demoted is being
\* enabled by toggle: the row is enabled and healthy again, the listing still
\* shows it unhealthy.
C28_Witness ==
    /\ admin.op = "toggle"
    /\ admin.enabled
    /\ admin.id \in DOMAIN sessions \cap DOMAIN cache
    /\ sessions[admin.id].enabled /\ sessions[admin.id].healthy
    /\ sessions[admin.id].active_tasks > 0
    /\ ~cache[admin.id].healthy

\* C29: whenever no pool operation is between its store statement and its
\* mirror write (no worker inside pick, release or mark_unhealthy, no operator
\* call under way), the in-memory listing holds the store's sessions and
\* agrees with each row on enabled, healthy, active_tasks, total_tasks,
\* success_count and fail_count.
C29_MirrorAgreesWhenQuiet ==
    (/\ admin = Idle
     /\ \A w \in Workers : pc[w] \notin {"pick_sync", "release_sync", "demote_sync"})
        => /\ DOMAIN cache = DOMAIN sessions
           /\ \A s \in DOMAIN sessions :
                /\ cache[s].enabled = sessions[s].enabled
                /\ cache[s].healthy = sessions[s].healthy
                /\ cache[s].active_tasks = sessions[s].active_tasks
                /\ cache[s].total_tasks = sessions[s].total_tasks
                /\ cache[s].success_count = sessions[s].success_count
                /\ cache[s].fail_count = sessions[s].fail_count

\* C31: for every session token at most one page is live: the page the map
\* holds for the token and the pages held by the fetch calls in progress for
\* that token are one and the same page.
C31_OneContextPerToken ==
    \A t \in SessionTokens :
        Cardinality({browser_sessions[k].page : k \in DOMAIN browser_sessions \cap {t}}
                    \cup {fetch[c].page : c \in {x \in Fetchers : fetch[x].token = t
                                                               /\ fetch[x].page # NULL}}) <= 1

Survivors == SelectSeq([i \in 1..Len(files) |-> i], LAMBDA i : i \notin failed)

\* The files that reach the submit function, by position: the names of the
\* materials passed to submit_seedance_video, or the file behind the uri
\* passed to submit_regular_video.
Received ==
    IF is_seedance THEN [i \in 1..Len(submit_args) |-> submit_args[i].name]
    ELSE [i \in 1..Len(submit_args) |-> submit_args[i][2]]

\* C33 as stated: whatever uploads failed, the submit function is called with
\* exactly the files whose upload succeeded, in their original order.
C33_SubmitReceivesSurvivors ==
    stage = "submit" => Received = Survivors

\* C33, amended: no upload outcome ends the pipeline, and the submit function
\* is called once the loop is over; process_materials hands on exactly the
\* files whose upload succeeded, in their original order; the signed family's
\* submit receives that list, the standard family's submit receives the uri of
\* the first surviving image and nothing else.
C33_UploadFailuresNonFatal ==
    /\ [](stage = "submit" =>
            /\ [i \in 1..Len(materials) |-> materials[i].name] = Survivors
            /\ is_seedance => submit_args = materials
            /\ ~is_seedance => submit_args = first_frame_uri(materials))
    /\ [][file_idx' > file_idx => stage' = "materials" /\ submit_result' = NoSubmit]_vars

\* C33 happens: the first of three uploads failed, and the signed family's
\* submit was called with the other two.
C33_Witness ==
    /\ stage = "submit"
    /\ is_seedance
    /\ Len(files) = 3
    /\ failed = {1}
    /\ Len(submit_args) = 2

\* C34: when the workers are back at their wait step and nothing is queued
\* (also after the process was stopped while a worker held a task and a
\* reserved session, and was started again), no session holds a reserved
\* slot and no task that was given a session is left in submitting, polling
\* or downloading.
C34_NothingStrandedAfterRestart ==
    (Quiesced /\ \A i \in DOMAIN tasks : tasks[i].status # "queued")
        => /\ \A s \in DOMAIN sessions : sessions[s].active_tasks = 0
           /\ \A i \in DOMAIN tasks :
                tasks[i].session_pool_id # NULL
                    => tasks[i].status \notin {"submitting", "polling", "downloading"}

\* C35: a poll answer is decided in this order: status 30 makes the pipeline
\* return an error, video URL or not; otherwise a non-empty video URL takes
\* the task to downloading, whatever the status; otherwise status 20 takes
\* the worker back to the top of the poll loop; any other status makes the
\* pipeline return an error. A task at downloading is written downloading and
\* then succeeded; a pipeline error is written failed.
C35_PollDecisionOrder ==
    [][\A w \in Workers :
        /\ (resp'.op = "poll" /\ pc[w] = "poll_http" /\ pc'[w] # "poll_http") =>
              IF resp'.status = STATUS_FAILED
              THEN pc'[w] = "err_check" /\ result'[w].branch = "err"
              ELSE IF resp'.has_url
              THEN pc'[w] = "downloading"
              ELSE IF resp'.status = STATUS_PENDING
              THEN pc'[w] = "poll_check"
              ELSE pc'[w] = "err_check" /\ result'[w].branch = "err"
        /\ (pc[w] = "downloading" /\ pc'[w] # "downloading") =>
              pc'[w] = "succ_write" /\ tasks'[task_id[w]].status = "downloading"
        /\ (pc[w] = "succ_write" /\ pc'[w] # "succ_write") =>
              tasks'[task_id[w]].status = "succeeded"
        /\ (pc[w] = "err_check" /\ pc'[w] # "err_check") => pc'[w] = "fail_write"
        /\ (pc[w] = "fail_write" /\ pc'[w] # "fail_write") =>
              tasks'[task_id[w]].status = "failed"]_vars

\* C35 happens: the upstream has answered a poll with status 30 and a video
\* URL, and the worker is on its error path.
C35_Witness ==
    /\ resp.op = "poll"
    /\ resp.status = STATUS_FAILED
    /\ resp.has_url
    /\ \E w \in Workers : pc[w] = "err_check"

\* C36: polling ends and the worker survives it. When the deadline check finds
\* the deadline passed (the task not cancelled), the pipeline returns the
\* polling-timeout error; the worker then writes the task failed with
\* error_kind "timeout", releases the session (one slot given back, a failure
\* counted, the health flag as it was, in the store and in the mirror) and is
\* back at its wait step without a demotion; and a worker in the poll loop
\* always gets back to its wait step.
C36_PollingTerminates ==
    /\ [][\A w \in Workers :
            /\ (pc[w] = "poll_check" /\ pc'[w] # "poll_check" /\ deadline[w] = 0
                    /\ ~is_task_cancelled(task_id[w]))
                   => /\ pc'[w] = "err_check"
                      /\ result'[w].branch = "err"
                      /\ result'[w].msg = PollTimedOut
            /\ (pc[w] = "err_check" /\ pc'[w] # "err_check" /\ result[w].msg = PollTimedOut
                    /\ ~is_task_cancelled(task_id[w]))
                   => pc'[w] = "fail_write"
            /\ (pc[w] = "fail_write" /\ pc'[w] # "fail_write" /\ result[w].msg = PollTimedOut)
                   => /\ tasks'[task_id[w]].status = "failed"
                      /\ tasks'[task_id[w]].error_kind = "timeout"
                      /\ pc'[w] = "release"
            /\ (pc[w] = "release" /\ pc'[w] # "release" /\ result[w].msg = PollTimedOut
                    /\ session[w].id \in DOMAIN sessions)
                   => /\ sessions'[session[w].id].healthy = sessions[session[w].id].healthy
                      /\ sessions'[session[w].id].active_tasks
                             = Max(0, sessions[session[w].id].active_tasks - 1)
                      /\ sessions'[session[w].id].fail_count
                             = sessions[session[w].id].fail_count + 1
                      /\ pc'[w] = "release_sync"
            /\ (pc[w] = "release_sync" /\ pc'[w] # "release_sync" /\ result[w].msg = PollTimedOut)
                   => /\ pc'[w] = "wait"
                      /\ \A s \in DOMAIN cache : cache'[s].healthy = cache[s].healthy
                      /\ UNCHANGED sessions]_vars
    /\ \A w \in Workers : (pc[w] \in {"poll_check", "poll_http"}) ~> (pc[w] = "wait")

\* C36 witness: a task polled until its deadline is written failed with
\* error_kind "timeout", its session released and still healthy, the worker
\* about to end the iteration.
C36_Witness ==
    \E w \in Workers :
        /\ pc[w] = "release_sync"
        /\ result[w].msg = PollTimedOut
        /\ tasks[task_id[w]].status = "failed"
        /\ tasks[task_id[w]].error_kind = "timeout"
        /\ session[w].id \in DOMAIN sessions
        /\ sessions[session[w].id].healthy
        /\ sessions[session[w].id].fail_count = 1
        /\ sessions[session[w].id].active_tasks = 0

\* C37 (as stated): every task in queued status is eventually claimed by a
\* worker (the worker stands right after its claim, holding the task).
C37_QueuedEventuallyClaimed ==
    \A i \in 1..MaxTasks :
        (i \in DOMAIN tasks /\ tasks[i].status = "queued")
            ~> (\E w \in Workers : pc[w] = "pick" /\ task_id[w] = i)

\* C37 (amended): a worker that leaves its wait step with a task has claimed
\* one of the oldest queued tasks, whether a notification was outstanding or
\* not, and every task in queued status is eventually claimed unless another
\* task is meanwhile written back to queued for lack of a session.
C37_QueuedClaimedUnlessRequeues ==
    /\ [][\A w \in Workers :
            (pc[w] = "wait" /\ pc'[w] # "wait")
                => /\ pc'[w] = "pick"
                   /\ task_id'[w] \in OldestQueued
                   /\ tasks'[task_id'[w]].status = "submitting"]_vars
    /\ \A i \in 1..MaxTasks :
          (i \in DOMAIN tasks /\ tasks[i].status = "queued")
              ~> (\/ \E w \in Workers : pc[w] = "pick" /\ task_id[w] = i
                  \/ \E w \in Workers : pc[w] = "requeue" /\ task_id[w] # i)

\* C37 witness: a task is queued, a worker waits and no notification is
\* outstanding: only the sleep branch can wake the worker.
C37_Witness ==
    /\ notify = 0
    /\ Waiting # {}
    /\ \E i \in DOMAIN tasks : tasks[i].status = "queued"

\* The locations in the order the family's submit function tries them.
LocationOrder ==
    IF is_seedance THEN <<submit_payload.data_aigc, submit_payload.aigc, submit_payload.data>>
    ELSE <<submit_payload.data_aigc, submit_payload.data, submit_payload.aigc>>

\* The positions of LocationOrder that hold a value other than null.
NonNullAt ==
    {n \in 1..3 : LocationOrder[n] # <<>> /\ LocationOrder[n][1].kind # "null"}

\* C38: once the submit response is dealt with (no API-level error, every
\* value present being null, a string or an integer), the submission has
\* succeeded with the text of the first non-null value in the family's order
\* of locations, and has failed exactly when no location holds a non-null
\* value.
C38_FirstNonNullWins ==
    (/\ stage \in {"polling", "failed"}
     /\ submit_payload.ret \in {<<>>, <<0>>}
     /\ \A n \in 1..3 : LocationOrder[n] # <<>> => LocationOrder[n][1].kind # "other")
        => IF NonNullAt = {}
           THEN ~submit_result.ok
           ELSE /\ submit_result.ok
                /\ \E n \in NonNullAt :
                      /\ \A m \in NonNullAt : n <= m
                      /\ submit_result.history_record_id = LocationOrder[n][1].text

\* C39: while a worker whose task failed with an authorization error stands
\* between the release of its session and the demotion of that session, no
\* other worker's pick returns that session.
C39_NoPickBeforeDemotion ==
    [][\A w \in Workers : \A v \in Workers \ {w} :
          (/\ pc[w] \in {"release_sync", "demote"}
           /\ result[w].branch = "err"
           /\ classify_error(result[w].msg) = "auth"
           /\ pc[v] = "pick" /\ pc'[v] = "pick_sync")
              => session'[v].id # session[w].id]_vars

\* The tokens (in sixtieths) a key's bucket holds for a check with limit R made
\* now, before the check takes one: a full bucket when the key has none, else
\* what it held plus R / 60 per second elapsed, at most R.
LevelAt(k, R) ==
    IF k \in DOMAIN buckets
    THEN Min(buckets[k].tokens + (instant - buckets[k].last_refill) * R, R * Minute)
    ELSE R * Minute

\* C40: a check with a limit R > 0 leaves the key's bucket with max = R and
\* 0 <= tokens <= R, whatever the limit of the checks before; if it was
\* allowed the bucket holds exactly one token less than the refilled level,
\* and if it was denied it holds the refilled level.
C40_BucketWithinBounds ==
    [][(resp'.op = "check" /\ resp'.limit > 0)
          => /\ resp'.id \in DOMAIN buckets'
             /\ buckets'[resp'.id].max_tokens = resp'.limit
             /\ buckets'[resp'.id].tokens >= 0
             /\ buckets'[resp'.id].tokens <= resp'.limit * Minute
             /\ resp'.result.allowed
                   => buckets'[resp'.id].tokens = LevelAt(resp'.id, resp'.limit) - Minute
             /\ ~resp'.result.allowed
                   => buckets'[resp'.id].tokens = LevelAt(resp'.id, resp'.limit)]_vars

\* C40 witness: the first check under limit 1 of a key whose bucket was made
\* and used under limit 2, with no time passed: it is allowed and leaves the
\* bucket empty.
C40_Witness ==
    /\ resp.op = "check"
    /\ resp.limit = 1
    /\ resp.result.allowed
    /\ instant = 0
    /\ burst[resp.id] = [full |-> FALSE, n |-> 1, limit |-> 1]
    /\ buckets[resp.id].max_tokens = 1
    /\ buckets[resp.id].tokens = 0
====
